---------------------------- MODULE Spec2Model ----------------------------
(***************************************************************************)
(* Model of the Python programs under src/: the algorithmic utilities of   *)
(* logica_programacao.py (busca_binaria, merge_sort/mesclar, fibonacci,    *)
(* contar_frequencia, top_n_palavras, remover_duplicatas, encontrar_pares, *)
(* operacoes_conjuntos), the problems of resolucao_problemas.py            *)
(* (validar_email, validar_senha_forte, eh_palindromo, mdc_sequencias,     *)
(* balanceamento_parenteses, encontrar_divisores, eh_numero_perfeito,      *)
(* sao_numeros_amigos, rotacionar_array), the order classes of             *)
(* codigo_limpo.py (Produto, Pedido, GerenciadorEstoque, ServicoVendas),   *)
(* GerenciadorUsuarios and GerenciadorMensagens of trabalho_equipe.py, and *)
(* ConfiguracaoAplicacao of facilidade_aprendizado.py.  Each group is a    *)
(* small state machine of its own; a specification runs one of them and    *)
(* leaves the variables of the others at their idle values.  Python lists  *)
(* are sequences; Python indices are kept 0-based in the variables         *)
(* (lista[i] in Python is lista[i + 1]                                     *)
(* in the model).                                                          *)
(***************************************************************************)
EXTENDS Integers, Sequences, FiniteSets, TLC

VARIABLES
    \* busca_binaria
    lista,        \* the list argument
    alvo,         \* the target argument
    esquerda,     \* local: left end of the closed interval
    direita,      \* local: right end of the closed interval
    bpc,          \* "while" | "return" | "IndexError"
    indice,       \* the returned value, None before the return
    lidos,        \* the indices meio at which lista[meio] was evaluated
    iteracoes,    \* number of loop bodies run
    \* merge_sort
    heap,         \* the list objects: heap[r] is the content of object r
    original,     \* the content of the argument when merge_sort was called
    saida,        \* the object merge_sort returned, None before the return
    opc,          \* "call" | "return"
    \* fibonacci
    fibN,         \* the n of the top-level call
    pilha,        \* the call stack, innermost call last
    memo,         \* the memo dict shared by the call tree
    retorno,      \* the value the last finished call returned
    calculos,     \* calculos[k]: calls fibonacci(k, memo) that got past the
                  \* memo lookup of line 115
    acertos,      \* acertos[k]: calls fibonacci(k, memo) answered by line 116
    \* contar_frequencia, top_n_palavras
    texto,        \* the text argument, a sequence of characters
    topN,         \* the n argument of top_n_palavras
    frequencia,   \* the dict built by contar_frequencia: <<palavra, count>>
                  \* pairs in insertion order
    top,          \* the list top_n_palavras returned
    tpc,          \* "inicio" | "frequencia" | "top"
    \* eh_palindromo
    textoP,       \* the text argument, a sequence of characters
    texto_limpo,  \* local: the normalized text
    palindromo,   \* the returned value
    ppc,          \* "call" | "return"
    \* balanceamento_parenteses
    expressao,    \* the expression argument, a sequence of characters
    posE,         \* number of characters of expressao the for loop has consumed
    pilhaPar,     \* local pilha: the openers not closed yet, innermost last
    balanceada,   \* the returned value
    epc,          \* "for" | "return"
    \* encontrar_divisores, eh_numero_perfeito, sao_numeros_amigos
    numA,         \* the argument numero, or a of sao_numeros_amigos
    numB,         \* the argument b of sao_numeros_amigos
    divisores,    \* the list encontrar_divisores returned
    resposta,     \* the bool eh_numero_perfeito or sao_numeros_amigos returned
    npc,          \* "call" | "divisores" | "perfeito" | "amigos"
    \* remover_duplicatas, encontrar_pares, rotacionar_array
    listaU,       \* the content of the list argument when the function was called
    argU,         \* the integer argument: alvo of encontrar_pares, posicoes of rotacionar_array
    heapU,        \* the list objects: heapU[1] is the argument
    resU,         \* the object the function returned, None before the return
    upc,          \* "call" | "remover_duplicatas" | "encontrar_pares" | "rotacionar_array"
    \* operacoes_conjuntos
    conjunto_a,   \* the first argument
    conjunto_b,   \* the second argument
    operacoes,    \* the returned dict, and the one of the call with the arguments swapped
    cpc,          \* "call" | "return"
    \* mdc_sequencias
    seq1,         \* the first string
    seq2,         \* the second string
    dp,           \* the filled table, indexed by <<i, j>>; None before the call
    subsequencia, \* the returned string
    lpc,          \* "call" | "return"
    \* validar_email
    email,        \* the string to validate
    emailValido,  \* the returned bool, None before the return
    mpc,          \* "call" | "return"
    \* validar_senha_forte
    senha,        \* the password to validate
    senhaValida,  \* the first element of the returned tuple, None before the return
    problemas,    \* the second element: the list of reasons
    spc,          \* "call" | "return"
    \* Produto, Pedido, GerenciadorEstoque, ServicoVendas (src/codigo_limpo.py)
    objetos,      \* the Produto objects: id_produto, preco, quantidade_estoque
    produtos,     \* GerenciadorEstoque.produtos: id_produto -> object, None if absent
    items,        \* Pedido.items: records of produto (an object) and quantidade
    status,       \* Pedido.status
    chamada,      \* the last call: its name and arguments
    antes,        \* objetos and status when the last call began
    retornoL,     \* what the last call returned
    \* Produto.reduzir_estoque on its own
    estoqueObjs,  \* the Produto objects
    inicial,      \* their quantidade_estoque at construction
    chamadaE,     \* the last call: its name and arguments
    antesE,       \* estoqueObjs when the last call began
    retornoE,     \* what the last call returned
    soNaoNegativas,\* every call so far had a quantity >= 0
    \* GerenciadorUsuarios (src/trabalho_equipe.py)
    usuarios,     \* GerenciadorUsuarios._usuarios: the dict id -> Usuario
    chamadaU,     \* the last call: its name and arguments
    antesU,       \* usuarios when the last call began
    resultadoU,   \* the Usuario the last call returned, None if none
    excecaoU,     \* the exception the last call raised, None if none
    \* ConfiguracaoAplicacao (src/facilidade_aprendizado.py)
    instancia,    \* the class attribute _instancia: an object, or Nenhuma
    configs,      \* the ConfiguracaoAplicacao objects: versao, ambiente, debug
    construcoes,  \* one record per construction: the object returned, configs before and after
    inicializacoes,\* how many times _inicializar has run
    \* GerenciadorMensagens (src/trabalho_equipe.py)
    mensagens,    \* GerenciadorMensagens._mensagens: the dict id -> Mensagem
    contador_id,  \* GerenciadorMensagens._contador_id
    chamadaM,     \* the last call: its name and arguments
    antesM,       \* mensagens and contador_id when the last call began
    retornoM      \* what the last call returned

varsBusca == <<lista, alvo, esquerda, direita, bpc, indice, lidos, iteracoes>>
varsOrdena == <<heap, original, saida, opc>>
varsFib == <<fibN, pilha, memo, retorno, calculos, acertos>>
varsTexto == <<texto, topN, frequencia, top, tpc>>
varsPal == <<textoP, texto_limpo, palindromo, ppc>>
varsPar == <<expressao, posE, pilhaPar, balanceada, epc>>
varsNum == <<numA, numB, divisores, resposta, npc>>
varsUtil == <<listaU, argU, heapU, resU, upc>>
varsConj == <<conjunto_a, conjunto_b, operacoes, cpc>>
varsLcs == <<seq1, seq2, dp, subsequencia, lpc>>
varsEmail == <<email, emailValido, mpc>>
varsSenha == <<senha, senhaValida, problemas, spc>>
varsLoja == <<objetos, produtos, items, status, chamada, antes, retornoL>>
varsEstoque == <<estoqueObjs, inicial, chamadaE, antesE, retornoE, soNaoNegativas>>
varsUsuarios == <<usuarios, chamadaU, antesU, resultadoU, excecaoU>>
varsConfig == <<instancia, configs, construcoes, inicializacoes>>
varsMensagens == <<mensagens, contador_id, chamadaM, antesM, retornoM>>
vars == <<varsBusca, varsOrdena, varsFib, varsTexto, varsPal, varsPar,
    varsNum, varsUtil, varsConj, varsLcs, varsEmail, varsSenha, varsLoja,
    varsEstoque, varsUsuarios, varsConfig, varsMensagens>>

\* What each function leaves alone: the variables of the other functions.
foraBusca == <<varsOrdena, varsFib, varsTexto, varsPal, varsPar, varsNum,
    varsUtil, varsConj, varsLcs, varsEmail, varsSenha, varsLoja,
    varsEstoque, varsUsuarios, varsConfig, varsMensagens>>
foraOrdena == <<varsBusca, varsFib, varsTexto, varsPal, varsPar, varsNum,
    varsUtil, varsConj, varsLcs, varsEmail, varsSenha, varsLoja,
    varsEstoque, varsUsuarios, varsConfig, varsMensagens>>
foraFib == <<varsBusca, varsOrdena, varsTexto, varsPal, varsPar, varsNum,
    varsUtil, varsConj, varsLcs, varsEmail, varsSenha, varsLoja,
    varsEstoque, varsUsuarios, varsConfig, varsMensagens>>
foraTexto == <<varsBusca, varsOrdena, varsFib, varsPal, varsPar, varsNum,
    varsUtil, varsConj, varsLcs, varsEmail, varsSenha, varsLoja,
    varsEstoque, varsUsuarios, varsConfig, varsMensagens>>
foraPal == <<varsBusca, varsOrdena, varsFib, varsTexto, varsPar, varsNum,
    varsUtil, varsConj, varsLcs, varsEmail, varsSenha, varsLoja,
    varsEstoque, varsUsuarios, varsConfig, varsMensagens>>
foraPar == <<varsBusca, varsOrdena, varsFib, varsTexto, varsPal, varsNum,
    varsUtil, varsConj, varsLcs, varsEmail, varsSenha, varsLoja,
    varsEstoque, varsUsuarios, varsConfig, varsMensagens>>
foraNum == <<varsBusca, varsOrdena, varsFib, varsTexto, varsPal, varsPar,
    varsUtil, varsConj, varsLcs, varsEmail, varsSenha, varsLoja,
    varsEstoque, varsUsuarios, varsConfig, varsMensagens>>
foraUtil == <<varsBusca, varsOrdena, varsFib, varsTexto, varsPal, varsPar,
    varsNum, varsConj, varsLcs, varsEmail, varsSenha, varsLoja,
    varsEstoque, varsUsuarios, varsConfig, varsMensagens>>
foraConj == <<varsBusca, varsOrdena, varsFib, varsTexto, varsPal, varsPar,
    varsNum, varsUtil, varsLcs, varsEmail, varsSenha, varsLoja,
    varsEstoque, varsUsuarios, varsConfig, varsMensagens>>
foraLcs == <<varsBusca, varsOrdena, varsFib, varsTexto, varsPal, varsPar,
    varsNum, varsUtil, varsConj, varsEmail, varsSenha, varsLoja,
    varsEstoque, varsUsuarios, varsConfig, varsMensagens>>
foraEmail == <<varsBusca, varsOrdena, varsFib, varsTexto, varsPal, varsPar,
    varsNum, varsUtil, varsConj, varsLcs, varsSenha, varsLoja, varsEstoque,
    varsUsuarios, varsConfig, varsMensagens>>
foraSenha == <<varsBusca, varsOrdena, varsFib, varsTexto, varsPal, varsPar,
    varsNum, varsUtil, varsConj, varsLcs, varsEmail, varsLoja, varsEstoque,
    varsUsuarios, varsConfig, varsMensagens>>
foraLoja == <<varsBusca, varsOrdena, varsFib, varsTexto, varsPal, varsPar,
    varsNum, varsUtil, varsConj, varsLcs, varsEmail, varsSenha,
    varsEstoque, varsUsuarios, varsConfig, varsMensagens>>
foraEstoque == <<varsBusca, varsOrdena, varsFib, varsTexto, varsPal,
    varsPar, varsNum, varsUtil, varsConj, varsLcs, varsEmail, varsSenha,
    varsLoja, varsUsuarios, varsConfig, varsMensagens>>
foraUsuarios == <<varsBusca, varsOrdena, varsFib, varsTexto, varsPal,
    varsPar, varsNum, varsUtil, varsConj, varsLcs, varsEmail, varsSenha,
    varsLoja, varsEstoque, varsConfig, varsMensagens>>
foraConfig == <<varsBusca, varsOrdena, varsFib, varsTexto, varsPal,
    varsPar, varsNum, varsUtil, varsConj, varsLcs, varsEmail, varsSenha,
    varsLoja, varsEstoque, varsUsuarios, varsMensagens>>
foraMensagens == <<varsBusca, varsOrdena, varsFib, varsTexto, varsPal,
    varsPar, varsNum, varsUtil, varsConj, varsLcs, varsEmail, varsSenha,
    varsLoja, varsEstoque, varsUsuarios, varsConfig>>

None == "None"

(***************************************************************************)
(* Bounds of the model.                                                    *)
(***************************************************************************)
MaxLista == 4
MaxValor == 2
MaxN == 10
MaxTexto == 5
MaxTop == 3
MaxExpr == 5
MaxNumero == 30
MaxSeq == 3
MaxEmail == 7
MaxSenha == 8
MaxEstoque == 2
MaxItens == 2
MaxConstrucoes == 3
MaxMensagens == 3

Valores == 0..MaxValor

\* All sequences over S of length at most n.
SeqAte(S, n) == UNION {[1..k -> S] : k \in 0..n}

Imagem(s) == {s[i] : i \in 1..Len(s)}

\* Non-decreasing (ascending with duplicates allowed).
Ordenada(s) == \A i \in 1..Len(s) - 1 : s[i] <= s[i + 1]

(***************************************************************************)
(* Python's list indexing lista[i]: 0 <= i < len reads position i, a       *)
(* negative i >= -len reads from the end, anything else raises IndexError. *)
(***************************************************************************)
IndiceValido(l, i) == -Len(l) <= i /\ i < Len(l)

Item(l, i) == IF i >= 0 THEN l[i + 1] ELSE l[Len(l) + i + 1]

(***************************************************************************)
(* busca_binaria(lista, alvo)                                              *)
(***************************************************************************)
DireitaInicialErrada(l) == Len(l)

\* line 34: esquerda, direita = 0, len(lista) - 1
DireitaInicial(l) == Len(l) - 1

\* line 37: meio = (esquerda + direita) // 2
Meio(e, d) == (e + d) \div 2

NovaEsquerdaSemAvanco(meio) == meio

\* line 42: esquerda = meio + 1
NovaEsquerda(meio) == meio + 1

VaiParaDireitaErrada(x, a) == x > a

\* line 41: elif lista[meio] < alvo
VaiParaDireita(x, a) == x < a

BuscaInit ==
    /\ lista \in SeqAte(Valores, MaxLista)
    /\ alvo \in -1..MaxValor + 1
    /\ esquerda = 0
    /\ direita = DireitaInicial(lista)
    /\ bpc = "while"
    /\ indice = None
    /\ lidos = {}
    /\ iteracoes = 0

\* One run of the loop body, lines 36-44.
BuscaIteracao ==
    /\ bpc = "while"
    /\ esquerda <= direita
    /\ LET meio == Meio(esquerda, direita) IN
        /\ lidos' = lidos \cup {meio}
        /\ iteracoes' = iteracoes + 1
        /\ IF ~IndiceValido(lista, meio)
           THEN /\ bpc' = "IndexError"
                /\ UNCHANGED <<esquerda, direita, indice>>
           ELSE IF Item(lista, meio) = alvo
           THEN /\ bpc' = "return"
                /\ indice' = meio
                /\ UNCHANGED <<esquerda, direita>>
           ELSE IF VaiParaDireita(Item(lista, meio), alvo)
           THEN /\ esquerda' = NovaEsquerda(meio)
                /\ UNCHANGED <<direita, bpc, indice>>
           ELSE /\ direita' = meio - 1
                /\ UNCHANGED <<esquerda, bpc, indice>>
    /\ UNCHANGED <<lista, alvo, foraBusca>>

\* Loop exit and line 46: return -1.
BuscaNaoEncontrado ==
    /\ bpc = "while"
    /\ ~(esquerda <= direita)
    /\ bpc' = "return"
    /\ indice' = -1
    /\ UNCHANGED <<lista, alvo, esquerda, direita, lidos, iteracoes, foraBusca>>

BuscaNext == BuscaIteracao \/ BuscaNaoEncontrado

\* busca_binaria is not running.
BuscaOcioso ==
    /\ lista = <<>>
    /\ alvo = 0
    /\ esquerda = 0
    /\ direita = 0
    /\ bpc = "ocioso"
    /\ indice = None
    /\ lidos = {}
    /\ iteracoes = 0

Presente == alvo \in Imagem(lista)

\* C1: on an ascending-sorted list that holds the target, busca_binaria does
\* not fault and returns an index i with 0 <= i < len(lista) and
\* lista[i] = alvo.
BuscaEncontraPresente ==
    (Ordenada(lista) /\ Presente) =>
        /\ bpc # "IndexError"
        /\ bpc = "return" =>
            /\ indice \in 0..Len(lista) - 1
            /\ lista[indice + 1] = alvo

\* Reached: a sorted list with a repeated target, found at an index that is
\* not the leftmost occurrence.
BuscaEncontraPresenteWitness ==
    /\ bpc = "return"
    /\ Ordenada(lista)
    /\ Presente
    /\ indice \in 1..Len(lista) - 1
    /\ lista[indice] = alvo
    /\ lista[indice + 1] = alvo

\* C2: on an ascending-sorted list (the empty one included) that does not
\* hold the target, busca_binaria returns -1 and every index it reads is in
\* 0..len(lista)-1.
BuscaAusenteMenosUm ==
    (Ordenada(lista) /\ ~Presente) =>
        /\ bpc # "IndexError"
        /\ lidos \subseteq 0..Len(lista) - 1
        /\ bpc = "return" => indice = -1

\* Reached: the empty list answered -1 without a single read.
BuscaAusenteMenosUmWitness ==
    /\ bpc = "return"
    /\ lista = <<>>
    /\ indice = -1
    /\ lidos = {}
    /\ iteracoes = 0

(***************************************************************************)
(* merge_sort(lista) and mesclar(esquerda, direita)                        *)
(*                                                                         *)
(* Lists are objects of the heap, so that "the same list" and "an equal    *)
(* list" differ: a slice lista[:meio] and mesclar's resultado = [] each     *)
(* allocate a new object, return lista returns the argument itself.  An    *)
(* element is a record of its integer valor and of pos, its position in    *)
(* the argument of the top-level call; the code compares the valor only,   *)
(* pos is what tells two equal elements apart.                             *)
(***************************************************************************)
Marcar(s) == [i \in 1..Len(s) |-> [valor |-> s[i], pos |-> i]]

ValoresDe(l) == [i \in 1..Len(l) |-> l[i].valor]

\* A new list object holding l: the heap and the reference to the object.
Novo(h, l) == [heap |-> Append(h, l), ref |-> Len(h) + 1]

TomaEsquerdaEstrita(x, y) == x.valor < y.valor

TomaEsquerdaInvertida(x, y) == x.valor >= y.valor

\* line 83: if esquerda[i] <= direita[j]
TomaEsquerda(x, y) == x.valor <= y.valor

\* lines 82-92: the while loop from (i, j, resultado), then the two extends.
RECURSIVE MesclarLaco(_, _, _, _, _)
MesclarLaco(e, d, i, j, resultado) ==
    IF i < Len(e) /\ j < Len(d)
    THEN IF TomaEsquerda(e[i + 1], d[j + 1])
         THEN MesclarLaco(e, d, i + 1, j, Append(resultado, e[i + 1]))
         ELSE MesclarLaco(e, d, i, j + 1, Append(resultado, d[j + 1]))
    ELSE resultado \o SubSeq(e, i + 1, Len(e)) \o SubSeq(d, j + 1, Len(d))

\* lines 75-92: resultado is a new list; the arguments are only read.
mesclar(h, e, d) == Novo(h, MesclarLaco(h[e], h[d], 0, 0, <<>>))

\* lines 65-72, on the list object r of heap h.
RECURSIVE merge_sort(_, _)
merge_sort(h, r) ==
    IF Len(h[r]) <= 1
    THEN [heap |-> h, ref |-> r]
    ELSE LET meio == Len(h[r]) \div 2
             fatiaE == Novo(h, SubSeq(h[r], 1, meio))
             e == merge_sort(fatiaE.heap, fatiaE.ref)
             fatiaD == Novo(e.heap, SubSeq(h[r], meio + 1, Len(h[r])))
             d == merge_sort(fatiaD.heap, fatiaD.ref)
         IN  mesclar(d.heap, e.ref, d.ref)

\* The argument is object 1.
entrada == 1

OrdenaInit ==
    /\ \E s \in SeqAte(Valores, MaxLista) :
        /\ heap = <<Marcar(s)>>
        /\ original = Marcar(s)
    /\ saida = None
    /\ opc = "call"

\* A caller's resultado = merge_sort(lista).
OrdenaChamada ==
    /\ opc = "call"
    /\ LET r == merge_sort(heap, entrada) IN
        /\ heap' = r.heap
        /\ saida' = r.ref
    /\ opc' = "return"
    /\ UNCHANGED <<original, foraOrdena>>

OrdenaNext == OrdenaChamada

\* merge_sort is not running.
OrdenaOcioso ==
    /\ heap = <<>>
    /\ original = <<>>
    /\ saida = None
    /\ opc = "ocioso"

\* Number of positions of s holding v.
Ocorrencias(s, v) == Cardinality({i \in 1..Len(s) : s[i] = v})

Permutacao(s, t) ==
    /\ Len(s) = Len(t)
    /\ \A v \in Imagem(s) \cup Imagem(t) : Ocorrencias(s, v) = Ocorrencias(t, v)

\* Position in the returned list of the element that was at position p.
PosicaoNaSaida(p) == CHOOSE a \in 1..Len(heap[saida]) : heap[saida][a].pos = p

\* C3: merge_sort(S) is non-decreasing and a permutation of S, and sorting
\* the result again gives an equal list.
OrdenaPermutacaoOrdenada ==
    opc = "return" =>
        /\ Ordenada(ValoresDe(heap[saida]))
        /\ Permutacao(ValoresDe(heap[saida]), ValoresDe(original))
        /\ LET rr == merge_sort(heap, saida) IN
            ValoresDe(rr.heap[rr.ref]) = ValoresDe(heap[saida])

\* Reached: an unsorted argument with a repeated value, sorted into a list
\* that differs from it.
OrdenaPermutacaoOrdenadaWitness ==
    /\ opc = "return"
    /\ Len(original) >= 4
    /\ ~Ordenada(ValoresDe(original))
    /\ \E p, q \in 1..Len(original) : p < q /\ original[p].valor = original[q].valor
    /\ ValoresDe(heap[saida]) # ValoresDe(original)

\* C4: merge_sort is stable: of two equal elements, the one that was earlier
\* in the argument is earlier in the result.
OrdenaEstavel ==
    opc = "return" =>
        \A p, q \in 1..Len(original) :
            (p < q /\ original[p].valor = original[q].valor) =>
                PosicaoNaSaida(p) < PosicaoNaSaida(q)

\* Reached: two equal elements that were in different halves, with a
\* smaller element after them, kept in their order.
OrdenaEstavelWitness ==
    /\ opc = "return"
    /\ Len(original) = 4
    /\ original[2].valor = original[3].valor
    /\ original[4].valor < original[3].valor
    /\ PosicaoNaSaida(2) < PosicaoNaSaida(3)

\* C5: merge_sort leaves the argument as it was and returns a list object
\* other than the argument, whatever the length.
OrdenaDevolveNovaLista ==
    opc = "return" =>
        /\ heap[entrada] = original
        /\ saida # entrada

(***************************************************************************)
(* fibonacci(n, memo=None)                                                 *)
(*                                                                         *)
(* The recursion is run on an explicit call stack.  A frame holds the      *)
(* call's n, its position, and a, the value of fibonacci(n - 1, memo) once *)
(* it has returned (Python evaluates the left operand of + first).         *)
(***************************************************************************)
Quadro(n) == [n |-> n, pc |-> "inicio", a |-> 0]

Topo == pilha[Len(pilha)]

Desempilha == SubSeq(pilha, 1, Len(pilha) - 1)

\* The stack with the top frame replaced by q and the call fibonacci(k, memo) pushed.
Chama(q, k) == Append([pilha EXCEPT ![Len(pilha)] = q], Quadro(k))

CasoBaseUm(n) == 1

\* lines 118-119: if n <= 1: return n
CasoBase(n) == n

NuncaNoMemo(m, n) == FALSE

\* line 115: if n in memo
NoMemo(m, n) == n \in DOMAIN m

\* line 121: memo[n] = ...
MemoGravado(m, n, v) == [k \in DOMAIN m \cup {n} |-> IF k = n THEN v ELSE m[k]]

Conta(f, k) == [f EXCEPT ![k] = @ + 1]

\* A top-level call fibonacci(n): lines 112-113 give it an empty memo.
FibInit ==
    /\ fibN \in 0..MaxN
    /\ pilha = <<Quadro(fibN)>>
    /\ memo = <<>>
    /\ retorno = None
    /\ calculos = [k \in 0..MaxN |-> 0]
    /\ acertos = [k \in 0..MaxN |-> 0]

\* lines 115-116: if n in memo: return memo[n]
FibMemoAcerto ==
    /\ pilha # <<>>
    /\ Topo.pc = "inicio"
    /\ NoMemo(memo, Topo.n)
    /\ retorno' = memo[Topo.n]
    /\ acertos' = Conta(acertos, Topo.n)
    /\ pilha' = Desempilha
    /\ UNCHANGED <<fibN, memo, calculos, foraFib>>

\* lines 118-119: if n <= 1: return n
FibCasoBase ==
    /\ pilha # <<>>
    /\ Topo.pc = "inicio"
    /\ ~NoMemo(memo, Topo.n)
    /\ Topo.n <= 1
    /\ retorno' = CasoBase(Topo.n)
    /\ calculos' = Conta(calculos, Topo.n)
    /\ pilha' = Desempilha
    /\ UNCHANGED <<fibN, memo, acertos, foraFib>>

\* line 121, left operand: call fibonacci(n - 1, memo)
FibChamaEsquerda ==
    /\ pilha # <<>>
    /\ Topo.pc = "inicio"
    /\ ~NoMemo(memo, Topo.n)
    /\ Topo.n > 1
    /\ calculos' = Conta(calculos, Topo.n)
    /\ pilha' = Chama([Topo EXCEPT !.pc = "esquerda"], Topo.n - 1)
    /\ UNCHANGED <<fibN, memo, retorno, acertos, foraFib>>

\* line 121, right operand: fibonacci(n - 1, memo) has returned, call
\* fibonacci(n - 2, memo)
FibChamaDireita ==
    /\ pilha # <<>>
    /\ Topo.pc = "esquerda"
    /\ pilha' = Chama([Topo EXCEPT !.pc = "direita", !.a = retorno], Topo.n - 2)
    /\ UNCHANGED <<fibN, memo, retorno, calculos, acertos, foraFib>>

\* lines 121-122: memo[n] = <sum>; return memo[n]
FibGrava ==
    /\ pilha # <<>>
    /\ Topo.pc = "direita"
    /\ memo' = MemoGravado(memo, Topo.n, Topo.a + retorno)
    /\ retorno' = memo'[Topo.n]
    /\ pilha' = Desempilha
    /\ UNCHANGED <<fibN, calculos, acertos, foraFib>>

FibNext ==
    \/ FibMemoAcerto
    \/ FibCasoBase
    \/ FibChamaEsquerda
    \/ FibChamaDireita
    \/ FibGrava

\* fibonacci is not running.
FibOcioso ==
    /\ fibN = 0
    /\ pilha = <<>>
    /\ memo = <<>>
    /\ retorno = None
    /\ calculos = [k \in 0..MaxN |-> 0]
    /\ acertos = [k \in 0..MaxN |-> 0]

\* The top-level call has returned.
FibTerminou == pilha = <<>> /\ retorno \in Nat

\* The Fibonacci numbers by their definition.
RECURSIVE F(_)
F(n) == IF n = 0 THEN 0 ELSE IF n = 1 THEN 1 ELSE F(n - 1) + F(n - 2)

\* C6: fibonacci(n) called without a memo returns F(n); fibonacci(0) = 0,
\* fibonacci(1) = 1 and fibonacci(10) = 55.
FibCorreto ==
    FibTerminou =>
        /\ retorno = F(fibN)
        /\ fibN = 0 => retorno = 0
        /\ fibN = 1 => retorno = 1
        /\ fibN = 10 => retorno = 55

\* Reached: fibonacci(10) has returned 55 through the memo.
FibCorretoWitness ==
    /\ FibTerminou
    /\ fibN = 10
    /\ retorno = 55
    /\ DOMAIN memo = 2..10

\* C7 as stated: for every index k, at most one call fibonacci(k, memo) of
\* the call tree gets past the memo lookup.
FibCadaIndiceUmaVez ==
    \A k \in 0..MaxN : calculos[k] <= 1

\* C7 amended: every index other than 1 is computed at most once; index 1, a
\* base case that is never stored in the memo, gets past the lookup at most
\* twice and is never answered from the memo.
FibCadaIndiceUmaVezExcetoUm ==
    /\ \A k \in 0..MaxN : k # 1 => calculos[k] <= 1
    /\ calculos[1] <= 2
    /\ acertos[1] = 0
    /\ acertos[0] = 0

\* Reached: a finished call tree in which index 3 was computed once and
\* answered from the memo once, and index 1 got past the lookup twice.
FibCadaIndiceUmaVezExcetoUmWitness ==
    /\ FibTerminou
    /\ fibN >= 5
    /\ calculos[3] = 1
    /\ acertos[3] = 1
    /\ calculos[1] = 2

(***************************************************************************)
(* contar_frequencia(texto) and top_n_palavras(texto, n)                   *)
(*                                                                         *)
(* A text is a sequence of one-character strings, a word a non-empty       *)
(* sequence of them.  A dict is the sequence of its <<key, value>> items   *)
(* in insertion order, which is the order Python iterates it in.           *)
(***************************************************************************)
Alfabeto == {"a", "A", "b", "!", " "}

\* The characters str.split() separates on.
Brancos == {" ", "\t", "\n", "\r", "\f"}

Maiusculas == <<"A", "B">>
Minusculas == <<"a", "b">>

MinusculaIdentidade(c) == c

\* str.lower() on one character.
Minuscula(c) ==
    IF \E k \in 1..Len(Maiusculas) : Maiusculas[k] = c
    THEN Minusculas[CHOOSE k \in 1..Len(Maiusculas) : Maiusculas[k] = c]
    ELSE c

\* line 139: texto.lower()
lower(s) == [i \in 1..Len(s) |-> Minuscula(s[i])]

\* line 139: .split(), scanning s from position i with the word atual being
\* read and the words palavras already cut.
RECURSIVE SplitDe(_, _, _, _)
SplitDe(s, i, atual, palavras) ==
    IF i > Len(s)
    THEN IF atual = <<>> THEN palavras ELSE Append(palavras, atual)
    ELSE IF s[i] \in Brancos
    THEN SplitDe(s, i + 1, <<>>,
                 IF atual = <<>> THEN palavras ELSE Append(palavras, atual))
    ELSE SplitDe(s, i + 1, Append(atual, s[i]), palavras)

split(s) == SplitDe(s, 1, <<>>, <<>>)

Chaves(d) == {d[k][1] : k \in 1..Len(d)}

\* frequencia.get(palavra, 0)
Get(d, palavra) ==
    IF palavra \in Chaves(d)
    THEN d[CHOOSE k \in 1..Len(d) : d[k][1] = palavra][2]
    ELSE 0

\* frequencia[palavra] = v: an existing key keeps its place, a new key goes last.
Atribui(d, palavra, v) ==
    IF palavra \in Chaves(d)
    THEN [k \in 1..Len(d) |-> IF d[k][1] = palavra THEN <<palavra, v>> ELSE d[k]]
    ELSE Append(d, <<palavra, v>>)

\* lines 142-143: the for loop from word i on.
RECURSIVE ContarDe(_, _, _)
ContarDe(palavras, i, d) ==
    IF i > Len(palavras)
    THEN d
    ELSE ContarDe(palavras, i + 1,
                  Atribui(d, palavras[i], Get(d, palavras[i]) + 1))

\* lines 139-145
contar_frequencia(s) == ContarDe(split(lower(s)), 1, <<>>)

FicaAntesInstavel(x, y) == x[2] > y[2]

\* sorted(..., key=lambda x: x[1], reverse=True) keeps x, already placed,
\* before a later item y unless y's key is strictly larger.
FicaAntes(x, y) == x[2] >= y[2]

\* y inserted into the sorted prefix r.
RECURSIVE Insere(_, _)
Insere(r, y) ==
    IF r = <<>> THEN <<y>>
    ELSE IF FicaAntes(r[Len(r)], y) THEN Append(r, y)
    ELSE Append(Insere(SubSeq(r, 1, Len(r) - 1), y), r[Len(r)])

\* line 160: sorted(frequencia.items(), key=lambda x: x[1], reverse=True),
\* a stable sort.
RECURSIVE SortedDe(_, _, _)
SortedDe(itens, i, r) ==
    IF i > Len(itens) THEN r ELSE SortedDe(itens, i + 1, Insere(r, itens[i]))

sorted(itens) == SortedDe(itens, 1, <<>>)

\* line 160: the slice [:n].  A negative n counts from the end of the list.
Fatia(s, n) ==
    LET fim == IF n >= 0
               THEN (IF n < Len(s) THEN n ELSE Len(s))
               ELSE (IF Len(s) + n > 0 THEN Len(s) + n ELSE 0)
    IN  SubSeq(s, 1, fim)

\* lines 159-160
top_n_palavras(s, n) == Fatia(sorted(contar_frequencia(s)), n)

TextoInit ==
    /\ texto \in SeqAte(Alfabeto, MaxTexto)
    /\ topN = 0
    /\ frequencia = <<>>
    /\ top = <<>>
    /\ tpc = "inicio"

\* A call contar_frequencia(texto).
TextoContar ==
    /\ tpc = "inicio"
    /\ frequencia' = contar_frequencia(texto)
    /\ tpc' = "frequencia"
    /\ UNCHANGED <<texto, topN, top, foraTexto>>

\* A call top_n_palavras(texto, n).
TextoTop ==
    /\ tpc = "inicio"
    /\ \E n \in -MaxTop..MaxTop :
        /\ topN' = n
        /\ top' = top_n_palavras(texto, n)
    /\ frequencia' = contar_frequencia(texto)
    /\ tpc' = "top"
    /\ UNCHANGED <<texto, foraTexto>>

TextoNext == TextoContar \/ TextoTop

\* Neither function is running.
TextoOcioso ==
    /\ texto = <<>>
    /\ topN = 0
    /\ frequencia = <<>>
    /\ top = <<>>
    /\ tpc = "ocioso"

(***************************************************************************)
(* What the claims call the tokens of a text, stated on the text itself:   *)
(* a token occurrence is a maximal run i..j of non-whitespace characters,  *)
(* read in lower case.                                                     *)
(***************************************************************************)
Token(i, j) == [k \in 1..(j - i + 1) |-> IF texto[i + k - 1] = "A" THEN "a" ELSE texto[i + k - 1]]

Trechos ==
    {ij \in (1..Len(texto)) \X (1..Len(texto)) :
        /\ ij[1] <= ij[2]
        /\ \A k \in ij[1]..ij[2] : texto[k] \notin Brancos
        /\ ij[1] = 1 \/ texto[ij[1] - 1] \in Brancos
        /\ ij[2] = Len(texto) \/ texto[ij[2] + 1] \in Brancos}

Tokens == {Token(ij[1], ij[2]) : ij \in Trechos}

Contagem(w) == Cardinality({ij \in Trechos : Token(ij[1], ij[2]) = w})

PrimeiraOcorrencia(w) ==
    CHOOSE i \in 1..Len(texto) :
        /\ \E ij \in Trechos : ij[1] = i /\ Token(ij[1], ij[2]) = w
        /\ \A ij \in Trechos : Token(ij[1], ij[2]) = w => i <= ij[1]

RECURSIVE SomaValores(_, _)
SomaValores(d, i) == IF i > Len(d) THEN 0 ELSE d[i][2] + SomaValores(d, i + 1)

\* C8: the keys of contar_frequencia(texto) are exactly the distinct
\* lower-cased whitespace-separated tokens of the text, punctuation kept,
\* each key once; the value of a key is the number of occurrences of the
\* token, and the values sum to the number of tokens.
FrequenciaContaTokens ==
    tpc \in {"frequencia", "top"} =>
        /\ Chaves(frequencia) = Tokens
        /\ Cardinality(Chaves(frequencia)) = Len(frequencia)
        /\ \A k \in 1..Len(frequencia) : frequencia[k][2] = Contagem(frequencia[k][1])
        /\ SomaValores(frequencia, 1) = Cardinality(Trechos)

\* Reached: a text with an upper-case and a lower-case occurrence of the
\* same word and a word with punctuation attached.
FrequenciaContaTokensWitness ==
    /\ tpc = "frequencia"
    /\ texto = <<"A", " ", "a", "!", " ">>
    /\ frequencia = << <<<<"a">>, 1>>, <<<<"a", "!">>, 1>> >>

Menor(a, b) == IF a < b THEN a ELSE b

\* C9: for n >= 1, top_n_palavras(texto, n) holds min(n, number of distinct
\* tokens) pairs <<token, count>>, by count descending and, for equal
\* counts, by first occurrence in the text; no token left out has a
\* strictly larger count than one returned.
TopOrdenadoPorContagem ==
    (tpc = "top" /\ topN >= 1) =>
        /\ Len(top) = Menor(topN, Cardinality(Tokens))
        /\ \A k \in 1..Len(top) :
            /\ top[k][1] \in Tokens
            /\ top[k][2] = Contagem(top[k][1])
        /\ \A j, k \in 1..Len(top) :
            j < k =>
                \/ top[j][2] > top[k][2]
                \/ /\ top[j][2] = top[k][2]
                   /\ PrimeiraOcorrencia(top[j][1]) < PrimeiraOcorrencia(top[k][1])
        /\ \A w \in Tokens \ {top[k][1] : k \in 1..Len(top)} :
            \A k \in 1..Len(top) : Contagem(w) <= top[k][2]

\* Reached: three distinct tokens of one occurrence each, the first two
\* returned in the order of the text and the third left out.
TopOrdenadoPorContagemWitness ==
    /\ tpc = "top"
    /\ topN = 2
    /\ texto = <<"b", " ", "!", " ", "a">>
    /\ top = << <<<<"b">>, 1>>, <<<<"!">>, 1>> >>

\* C10: for n <= 0, top_n_palavras(texto, n) is the empty list.
TopVazioParaNNaoPositivo ==
    (tpc = "top" /\ topN <= 0) => top = <<>>

(***************************************************************************)
(* eh_palindromo(texto), src/resolucao_problemas.py                        *)
(***************************************************************************)
AlfabetoP == {"a", "A", "b", "1", ","}

LetrasMinusculas == {"a", "b"}
Digitos == {"0", "1"}

MantemSoLetras(c) == c \in LetrasMinusculas

\* line 193: the characters re.sub(r'[^a-z0-9]', '', ...) does not delete.
Mantem(c) == c \in LetrasMinusculas \cup Digitos

\* line 193: re.sub(r'[^a-z0-9]', '', s), from position i on.
RECURSIVE SubDe(_, _)
SubDe(s, i) ==
    IF i > Len(s) THEN <<>>
    ELSE IF Mantem(s[i]) THEN <<s[i]>> \o SubDe(s, i + 1)
    ELSE SubDe(s, i + 1)

\* line 194: s[::-1]
Reverso(s) == [i \in 1..Len(s) |-> s[Len(s) + 1 - i]]

PalInit ==
    /\ textoP \in SeqAte(AlfabetoP, MaxTexto)
    /\ texto_limpo = <<>>
    /\ palindromo = None
    /\ ppc = "call"

\* lines 193-194
PalChamada ==
    /\ ppc = "call"
    /\ texto_limpo' = SubDe(lower(textoP), 1)
    /\ palindromo' = (texto_limpo' = Reverso(texto_limpo'))
    /\ ppc' = "return"
    /\ UNCHANGED <<textoP, foraPal>>

PalNext == PalChamada

\* eh_palindromo is not running.
PalOcioso ==
    /\ textoP = <<>>
    /\ texto_limpo = <<>>
    /\ palindromo = None
    /\ ppc = "ocioso"

(***************************************************************************)
(* The claim's normalization, stated on the positions of the text: the     *)
(* positions holding an ASCII letter or digit, each read in lower case.    *)
(***************************************************************************)
EhLetraOuDigito(c) == c \in {"a", "b", "A", "B", "0", "1"}

EmMinuscula(c) == IF c = "A" THEN "a" ELSE IF c = "B" THEN "b" ELSE c

Mantidas == {i \in 1..Len(textoP) : EhLetraOuDigito(textoP[i])}

\* Position i is as far from the left end of the kept characters as j is
\* from the right end.
Espelhadas(i, j) ==
    Cardinality({p \in Mantidas : p < i}) = Cardinality({p \in Mantidas : p > j})

\* C11: eh_palindromo(texto) is true iff the lower-cased text without the
\* characters that are no ASCII letter or digit reads the same in both
\* directions; a text with no letter or digit is a palindrome.
PalindromoNormalizado ==
    ppc = "return" =>
        /\ palindromo =
            (\A i, j \in Mantidas :
                Espelhadas(i, j) => EmMinuscula(textoP[i]) = EmMinuscula(textoP[j]))
        /\ Mantidas = {} => palindromo

\* Reached: a palindrome only once the case is folded and the punctuation
\* dropped.
PalindromoNormalizadoWitness ==
    /\ ppc = "return"
    /\ textoP = <<"A", ",", "1", "a">>
    /\ texto_limpo = <<"a", "1", "a">>
    /\ palindromo = TRUE

(***************************************************************************)
(* balanceamento_parenteses(expressao), src/resolucao_problemas.py         *)
(***************************************************************************)
AlfabetoE == {"(", ")", "[", "]", "{", "}", "a"}

\* line 257: pares = {'(': ')', '[': ']', '{': '}'}
Abre == {"(", "[", "{"}

pares(c) == IF c = "(" THEN ")" ELSE IF c = "[" THEN "]" ELSE "}"

\* pares.values()
Fecha == {pares(c) : c \in Abre}

NuncaDifere(aberto, char) == FALSE

\* line 263: pares[pilha.pop()] != char
Difere(aberto, char) == pares(aberto) # char

ParInit ==
    /\ expressao \in SeqAte(AlfabetoE, MaxExpr)
    /\ posE = 0
    /\ pilhaPar = <<>>
    /\ balanceada = None
    /\ epc = "for"

\* lines 260-261: an opener is pushed.
ParAbre ==
    /\ epc = "for"
    /\ posE < Len(expressao)
    /\ expressao[posE + 1] \in Abre
    /\ pilhaPar' = Append(pilhaPar, expressao[posE + 1])
    /\ posE' = posE + 1
    /\ UNCHANGED <<expressao, balanceada, epc, foraPar>>

\* lines 262-264: a closer pops the stack; on an empty stack (pop is not
\* evaluated) or an opener of another kind the function returns False.
ParFecha ==
    /\ epc = "for"
    /\ posE < Len(expressao)
    /\ expressao[posE + 1] \notin Abre
    /\ expressao[posE + 1] \in Fecha
    /\ posE' = posE + 1
    /\ IF pilhaPar = <<>>
       THEN /\ balanceada' = FALSE
            /\ epc' = "return"
            /\ UNCHANGED pilhaPar
       ELSE /\ pilhaPar' = SubSeq(pilhaPar, 1, Len(pilhaPar) - 1)
            /\ IF Difere(pilhaPar[Len(pilhaPar)], expressao[posE + 1])
               THEN balanceada' = FALSE /\ epc' = "return"
               ELSE UNCHANGED <<balanceada, epc>>
    /\ UNCHANGED <<expressao, foraPar>>

\* lines 259-262: any other character is skipped.
ParOutro ==
    /\ epc = "for"
    /\ posE < Len(expressao)
    /\ expressao[posE + 1] \notin Abre
    /\ expressao[posE + 1] \notin Fecha
    /\ posE' = posE + 1
    /\ UNCHANGED <<expressao, pilhaPar, balanceada, epc, foraPar>>

\* line 266: return len(pilha) == 0
ParFim ==
    /\ epc = "for"
    /\ posE = Len(expressao)
    /\ balanceada' = (Len(pilhaPar) = 0)
    /\ epc' = "return"
    /\ UNCHANGED <<expressao, posE, pilhaPar, foraPar>>

ParNext == ParAbre \/ ParFecha \/ ParOutro \/ ParFim

\* balanceamento_parenteses is not running.
ParOcioso ==
    /\ expressao = <<>>
    /\ posE = 0
    /\ pilhaPar = <<>>
    /\ balanceada = None
    /\ epc = "ocioso"

(***************************************************************************)
(* Well-nested bracket strings by their grammar: the empty string, or      *)
(* o X c Y with o an opener, c the closer of o's kind, X and Y well-nested.*)
(***************************************************************************)
EhColchete(c) == c \in {"(", ")", "[", "]", "{", "}"}

RECURSIVE SoColchetes(_)
SoColchetes(s) ==
    IF s = <<>> THEN <<>>
    ELSE IF EhColchete(Head(s)) THEN <<Head(s)>> \o SoColchetes(Tail(s))
    ELSE SoColchetes(Tail(s))

MesmoTipo(o, c) == <<o, c>> \in {<<"(", ")">>, <<"[", "]">>, <<"{", "}">>}

RECURSIVE BemAninhada(_)
BemAninhada(s) ==
    \/ s = <<>>
    \/ \E k \in 2..Len(s) :
        /\ MesmoTipo(s[1], s[k])
        /\ BemAninhada(SubSeq(s, 2, k - 1))
        /\ BemAninhada(SubSeq(s, k + 1, Len(s)))

\* C12: balanceamento_parenteses returns true iff the brackets of the
\* expression, all other characters dropped, form a well-nested string; a
\* closer met with an empty stack gives False.
ParBalanceadaSseAninhada ==
    epc = "return" => balanceada = BemAninhada(SoColchetes(expressao))

\* Reached: brackets of two kinds nested around an ignored character.
ParBalanceadaSseAninhadaWitness ==
    /\ epc = "return"
    /\ expressao = <<"(", "[", "a", "]", ")">>
    /\ balanceada = TRUE

(***************************************************************************)
(* encontrar_divisores, eh_numero_perfeito and sao_numeros_amigos,         *)
(* src/resolucao_problemas.py                                              *)
(***************************************************************************)
\* The numbers of the docstrings and of main: 496 is perfect, 220 and 284
\* are amicable.
Exemplos == {220, 284, 496}

Numeros == (-2..MaxNumero) \cup Exemplos

UltimoDoRangeInclusivo(numero) == numero

\* line 140: the last i of range(1, numero)
UltimoDoRange(numero) == numero - 1

DivideInvertido(numero, i) == i % numero = 0

\* line 141: if numero % i == 0
Divide(numero, i) == numero % i = 0

\* line 140: range(1, numero), the values i takes in order.
range1(numero) == [i \in 1..UltimoDoRange(numero) |-> i]

\* lines 139-143: the i of the range, in order, that pass the test of line 141.
encontrar_divisores(numero) ==
    SelectSeq(range1(numero), LAMBDA i : Divide(numero, i))

\* sum(list)
RECURSIVE sum(_)
sum(l) == IF l = <<>> THEN 0 ELSE Head(l) + sum(Tail(l))

\* line 157
eh_numero_perfeito(numero) == numero = sum(encontrar_divisores(numero))

AmigosSoUmLado(a, b) == sum(encontrar_divisores(a)) = b

\* lines 173-176
sao_numeros_amigos(a, b) ==
    LET soma_divisores_a == sum(encontrar_divisores(a))
        soma_divisores_b == sum(encontrar_divisores(b))
    IN  soma_divisores_a = b /\ soma_divisores_b = a

\* numA also takes 0 and negative values, for which range(1, numero) is
\* empty; b is drawn among the positive numbers.
NumInit ==
    /\ numA \in Numeros
    /\ numB \in {n \in Numeros : n >= 1}
    /\ divisores = <<>>
    /\ resposta = None
    /\ npc = "call"

\* A call encontrar_divisores(numA).
NumDivisores ==
    /\ npc = "call"
    /\ divisores' = encontrar_divisores(numA)
    /\ npc' = "divisores"
    /\ UNCHANGED <<numA, numB, resposta, foraNum>>

\* A call eh_numero_perfeito(numA).
NumPerfeito ==
    /\ npc = "call"
    /\ resposta' = eh_numero_perfeito(numA)
    /\ npc' = "perfeito"
    /\ UNCHANGED <<numA, numB, divisores, foraNum>>

\* A call sao_numeros_amigos(numA, numB).
NumAmigos ==
    /\ npc = "call"
    /\ resposta' = sao_numeros_amigos(numA, numB)
    /\ npc' = "amigos"
    /\ UNCHANGED <<numA, numB, divisores, foraNum>>

NumNext == NumDivisores \/ NumPerfeito \/ NumAmigos

\* None of the three functions is running.
NumOcioso ==
    /\ numA = 0
    /\ numB = 0
    /\ divisores = <<>>
    /\ resposta = None
    /\ npc = "ocioso"

(***************************************************************************)
(* The proper divisors of n as a set, and their sum.                       *)
(***************************************************************************)
DivisoresProprios(n) == {d \in 1..n - 1 : \E q \in 1..n : d * q = n}

RECURSIVE SomaDoConjunto(_)
SomaDoConjunto(S) ==
    IF S = {} THEN 0
    ELSE LET x == CHOOSE y \in S : TRUE IN x + SomaDoConjunto(S \ {x})

EstritamenteCrescente(s) == \A i \in 1..Len(s) - 1 : s[i] < s[i + 1]

\* C13: for n > 1, encontrar_divisores(n) lists in strictly ascending order
\* exactly the d with 1 <= d < n that divide n, so 1 is in it and n is not;
\* for n <= 1 the list is empty.
DivisoresSaoOsProprios ==
    npc = "divisores" =>
        IF numA > 1
        THEN /\ EstritamenteCrescente(divisores)
             /\ Imagem(divisores) = DivisoresProprios(numA)
             /\ divisores[1] = 1
             /\ numA \notin Imagem(divisores)
        ELSE divisores = <<>>

\* Reached: the proper divisors of 12.
DivisoresSaoOsPropriosWitness ==
    /\ npc = "divisores"
    /\ numA = 12
    /\ divisores = <<1, 2, 3, 4, 6>>

\* C14: for n >= 1, eh_numero_perfeito(n) is true iff n is the sum of its
\* proper divisors: true for 6, 28 and 496, false for 12.
PerfeitoSseSomaDosDivisores ==
    (npc = "perfeito" /\ numA >= 1) =>
        /\ resposta = (numA = SomaDoConjunto(DivisoresProprios(numA)))
        /\ numA \in {6, 28, 496} => resposta
        /\ numA = 12 => ~resposta

\* Reached: 496 found perfect.
PerfeitoSseSomaDosDivisoresWitness ==
    /\ npc = "perfeito"
    /\ numA = 496
    /\ resposta = TRUE

\* C15: for a, b >= 1, sao_numeros_amigos(a, b) is true iff the proper
\* divisors of a sum to b and those of b sum to a, and the answer is the same
\* with the arguments swapped.
AmigosSseSomasCruzadas ==
    (npc = "amigos" /\ numA >= 1 /\ numB >= 1) =>
        /\ resposta = (/\ SomaDoConjunto(DivisoresProprios(numA)) = numB
                       /\ SomaDoConjunto(DivisoresProprios(numB)) = numA)
        /\ resposta = sao_numeros_amigos(numB, numA)

\* Reached: 220 and 284 found amicable.
AmigosSseSomasCruzadasWitness ==
    /\ npc = "amigos"
    /\ numA = 220
    /\ numB = 284
    /\ resposta = TRUE

\* C16: sao_numeros_amigos(a, b) returning true implies a # b.
AmigosSaoDistintos ==
    (npc = "amigos" /\ resposta) => numA # numB

(***************************************************************************)
(* remover_duplicatas and encontrar_pares, src/logica_programacao.py       *)
(***************************************************************************)
NuncaVisto(visto, elemento) == TRUE

\* line 181: if elemento not in visto
NaoVisto(visto, elemento) == elemento \notin visto

\* lines 180-183: the for loop from element i on.
RECURSIVE RemoverDe(_, _, _, _)
RemoverDe(l, i, visto, resultado) ==
    IF i > Len(l) THEN resultado
    ELSE IF NaoVisto(visto, l[i])
    THEN RemoverDe(l, i + 1, visto \cup {l[i]}, Append(resultado, l[i]))
    ELSE RemoverDe(l, i + 1, visto, resultado)

\* lines 177-185: the content of the new list resultado.
remover_duplicatas(l) == RemoverDe(l, 1, {}, <<>>)

min(a, b) == IF a <= b THEN a ELSE b

max(a, b) == IF a >= b THEN a ELSE b

VistoComOAtual(visto, num) == visto \cup {num}

\* lines 204-206: visto when complemento is looked up, num not yet added.
VistoNaBusca(visto, num) == visto

\* lines 202-206: the for loop from element i on.
RECURSIVE ParesDe(_, _, _, _, _)
ParesDe(l, a, i, visto, ps) ==
    IF i > Len(l) THEN ps
    ELSE LET num == l[i]
             complemento == a - num
         IN  ParesDe(l, a, i + 1, visto \cup {num},
                     IF complemento \in VistoNaBusca(visto, num)
                     THEN Append(ps, <<min(num, complemento), max(num, complemento)>>)
                     ELSE ps)

\* The lists a set can be turned into: each element once, in any order.
Listagens(S) ==
    {s \in [1..Cardinality(S) -> S] : \A i, j \in 1..Cardinality(S) : s[i] = s[j] => i = j}

\* lines 199-208: list(set(pares)); the order of a set's elements is not
\* defined, so every order is a possible result.
encontrar_pares(l, a) == Listagens(Imagem(ParesDe(l, a, 1, {}, <<>>)))

(***************************************************************************)
(* rotacionar_array, src/resolucao_problemas.py                            *)
(***************************************************************************)
FatiaDesdeOFim(s, n) == SubSeq(s, Len(s) + n + 1, Len(s))

\* The slice s[n:].  A negative n counts from the end of the list; -0 is 0.
FatiaDesde(s, n) ==
    LET ini == IF n >= 0
               THEN (IF n < Len(s) THEN n ELSE Len(s))
               ELSE (IF Len(s) + n > 0 THEN Len(s) + n ELSE 0)
    IN  SubSeq(s, ini + 1, Len(s))

\* lines 289-290, for a non-empty array: the content of the new list.
Rotacionado(array, posicoes) ==
    LET p == posicoes % Len(array)
    IN  FatiaDesde(array, -p) \o Fatia(array, -p)

UtilInit ==
    /\ listaU \in SeqAte(Valores, MaxLista)
    /\ argU = 0
    /\ heapU = <<listaU>>
    /\ resU = None
    /\ upc = "call"

\* A call remover_duplicatas(lista).
UtilRemoverDuplicatas ==
    /\ upc = "call"
    /\ heapU' = Append(heapU, remover_duplicatas(heapU[1]))
    /\ resU' = Len(heapU) + 1
    /\ upc' = "remover_duplicatas"
    /\ UNCHANGED <<listaU, argU, foraUtil>>

\* A call encontrar_pares(lista, alvo).
UtilEncontrarPares ==
    /\ upc = "call"
    /\ \E a \in -1..2 * MaxValor + 1 :
        /\ argU' = a
        /\ \E r \in encontrar_pares(heapU[1], a) : heapU' = Append(heapU, r)
    /\ resU' = Len(heapU) + 1
    /\ upc' = "encontrar_pares"
    /\ UNCHANGED <<listaU, foraUtil>>

\* A call rotacionar_array(array, posicoes): lines 286-287 return the empty
\* argument itself, line 290 a new list.
UtilRotacionar ==
    /\ upc = "call"
    /\ \E posicoes \in -(MaxLista + 1)..MaxLista + 1 :
        /\ argU' = posicoes
        /\ IF heapU[1] = <<>>
           THEN /\ resU' = 1
                /\ UNCHANGED heapU
           ELSE /\ heapU' = Append(heapU, Rotacionado(heapU[1], posicoes))
                /\ resU' = Len(heapU) + 1
    /\ upc' = "rotacionar_array"
    /\ UNCHANGED <<listaU, foraUtil>>

UtilNext == UtilRemoverDuplicatas \/ UtilEncontrarPares \/ UtilRotacionar

\* None of the three functions is running.
UtilOcioso ==
    /\ listaU = <<>>
    /\ argU = 0
    /\ heapU = <<>>
    /\ resU = None
    /\ upc = "ocioso"

\* The position of the first occurrence of v in s.
PrimeiraPosicao(s, v) ==
    CHOOSE i \in 1..Len(s) : s[i] = v /\ \A j \in 1..i - 1 : s[j] # v

SemRepetidos(s) == \A i, j \in 1..Len(s) : s[i] = s[j] => i = j

\* C17: remover_duplicatas(S) holds each distinct element of S once and
\* nothing else, in the order of the first occurrences in S; S is not
\* modified, and the function applied to its result gives an equal list.
RemoverDuplicatasPrimeirasOcorrencias ==
    upc = "remover_duplicatas" =>
        LET r == heapU[resU] IN
        /\ Imagem(r) = Imagem(listaU)
        /\ SemRepetidos(r)
        /\ \A j, k \in 1..Len(r) :
            j < k => PrimeiraPosicao(listaU, r[j]) < PrimeiraPosicao(listaU, r[k])
        /\ heapU[1] = listaU
        /\ remover_duplicatas(r) = r

\* Reached: repeats that are not adjacent, removed with the order kept.
RemoverDuplicatasPrimeirasOcorrenciasWitness ==
    /\ upc = "remover_duplicatas"
    /\ listaU = <<2, 0, 2, 0>>
    /\ heapU[resU] = <<2, 0>>

\* The pairs (min, max) of the elements at two positions i < j whose sum is t.
ParesQueSomam(s, t) ==
    {<<min(s[p[1]], s[p[2]]), max(s[p[1]], s[p[2]])>> :
        p \in {q \in (1..Len(s)) \X (1..Len(s)) : q[1] < q[2] /\ s[q[1]] + s[q[2]] = t}}

\* C18: encontrar_pares(S, t) returns, without repeats, exactly the pairs
\* (min, max) of two elements at positions i < j whose sum is t, and a pair
\* (x, x) only when x occurs at least twice in S.
ParesSaoOsQueSomam ==
    upc = "encontrar_pares" =>
        LET r == heapU[resU] IN
        /\ SemRepetidos(r)
        /\ Imagem(r) = ParesQueSomam(listaU, argU)
        /\ \A k \in 1..Len(r) : r[k][1] = r[k][2] => Ocorrencias(listaU, r[k][1]) >= 2

\* Reached: a pair (x, x) from three occurrences of x, found at more than
\* one pair of positions and returned once.
ParesSaoOsQueSomamWitness ==
    /\ upc = "encontrar_pares"
    /\ listaU = <<1, 1, 1, 2>>
    /\ argU = 2
    /\ heapU[resU] = <<<<1, 1>>>>

\* C20: rotacionar_array(S, k) returns a list R of the length L of S with
\* R[(i + k) mod L] = S[i] at every position i (0-based) when L > 0, and the
\* empty list when L = 0, for k zero, negative or at least L.
RotacaoPorKModL ==
    upc = "rotacionar_array" =>
        LET R == heapU[resU]
            L == Len(listaU)
        IN  /\ Len(R) = L
            /\ \A i \in 0..L - 1 : R[((i + argU) % L) + 1] = listaU[i + 1]
            /\ L = 0 => R = <<>>

\* Reached: a negative k whose size exceeds the length.
RotacaoPorKModLWitness ==
    /\ upc = "rotacionar_array"
    /\ listaU = <<0, 1, 2>>
    /\ argU = -4
    /\ heapU[resU] = <<1, 2, 0>>

(***************************************************************************)
(* operacoes_conjuntos, src/logica_programacao.py                          *)
(***************************************************************************)
SoDiferenca(a, b) == a \ b

\* line 230: conjunto_a ^ conjunto_b, the elements in exactly one of the sets.
DiferencaSimetrica(a, b) == {x \in a \cup b : ~(x \in a /\ x \in b)}

\* lines 226-231: the returned dict.
operacoes_conjuntos(a, b) ==
    [uniao |-> a \cup b,
     interseccao |-> a \cap b,
     diferenca |-> a \ b,
     diferenca_simetrica |-> DiferencaSimetrica(a, b)]

ConjInit ==
    /\ conjunto_a \in SUBSET Valores
    /\ conjunto_b \in SUBSET Valores
    /\ operacoes = None
    /\ cpc = "call"

\* The calls operacoes_conjuntos(A, B) and operacoes_conjuntos(B, A).
ConjChamada ==
    /\ cpc = "call"
    /\ operacoes' = [ab |-> operacoes_conjuntos(conjunto_a, conjunto_b),
                     ba |-> operacoes_conjuntos(conjunto_b, conjunto_a)]
    /\ cpc' = "return"
    /\ UNCHANGED <<conjunto_a, conjunto_b, foraConj>>

ConjNext == ConjChamada

\* operacoes_conjuntos is not running.
ConjOcioso ==
    /\ conjunto_a = {}
    /\ conjunto_b = {}
    /\ operacoes = None
    /\ cpc = "ocioso"

\* C19: operacoes_conjuntos(A, B) and operacoes_conjuntos(B, A) have equal
\* uniao, interseccao and diferenca_simetrica, and the symmetric difference
\* is the union minus the intersection.
ConjuntosComutam ==
    cpc = "return" =>
        /\ operacoes.ab.uniao = operacoes.ba.uniao
        /\ operacoes.ab.interseccao = operacoes.ba.interseccao
        /\ operacoes.ab.diferenca_simetrica = operacoes.ba.diferenca_simetrica
        /\ operacoes.ab.diferenca_simetrica
               = operacoes.ab.uniao \ operacoes.ab.interseccao

\* Reached: overlapping sets, neither inside the other, whose diferenca
\* depends on the order of the arguments.
ConjuntosComutamWitness ==
    /\ cpc = "return"
    /\ conjunto_a = {0, 1}
    /\ conjunto_b = {1, 2}
    /\ operacoes.ab.diferenca = {0}
    /\ operacoes.ba.diferenca = {2}
    /\ operacoes.ab.diferenca_simetrica = {0, 2}

(***************************************************************************)
(* mdc_sequencias, src/resolucao_problemas.py                              *)
(***************************************************************************)
AlfabetoS == {"A", "G", "T"}

MenorVizinho(acima, aoLado) == min(acima, aoLado)

\* line 223: max(dp[i - 1][j], dp[i][j - 1])
MaiorVizinho(acima, aoLado) == max(acima, aoLado)

\* lines 215-223: the table after the two nested loops; row 0 and column 0
\* keep the 0 of line 215.
TabelaDp(s1, s2) ==
    LET t[p \in (0..Len(s1)) \X (0..Len(s2))] ==
            IF p[1] = 0 \/ p[2] = 0 THEN 0
            ELSE IF s1[p[1]] = s2[p[2]]
            THEN t[<<p[1] - 1, p[2] - 1>>] + 1
            ELSE MaiorVizinho(t[<<p[1] - 1, p[2]>>], t[<<p[1], p[2] - 1>>])
    IN  t

\* lines 229-237: the while loop from (i, j) on.
RECURSIVE Reconstruir(_, _, _, _, _, _)
Reconstruir(s1, s2, t, i, j, resultado) ==
    IF ~(i > 0 /\ j > 0) THEN resultado
    ELSE IF s1[i] = s2[j]
    THEN Reconstruir(s1, s2, t, i - 1, j - 1, Append(resultado, s1[i]))
    ELSE IF t[<<i - 1, j>>] > t[<<i, j - 1>>]
    THEN Reconstruir(s1, s2, t, i - 1, j, resultado)
    ELSE Reconstruir(s1, s2, t, i, j - 1, resultado)

LcsInit ==
    /\ seq1 \in SeqAte(AlfabetoS, MaxSeq)
    /\ seq2 \in SeqAte(AlfabetoS, MaxSeq)
    /\ dp = None
    /\ subsequencia = None
    /\ lpc = "call"

\* A call mdc_sequencias(seq1, seq2); line 239 joins the reversed list.
LcsChamada ==
    /\ lpc = "call"
    /\ dp' = TabelaDp(seq1, seq2)
    /\ subsequencia' = Reverso(Reconstruir(seq1, seq2, dp', Len(seq1), Len(seq2), <<>>))
    /\ lpc' = "return"
    /\ UNCHANGED <<seq1, seq2, foraLcs>>

LcsNext == LcsChamada

\* mdc_sequencias is not running.
LcsOcioso ==
    /\ seq1 = <<>>
    /\ seq2 = <<>>
    /\ dp = None
    /\ subsequencia = None
    /\ lpc = "ocioso"

\* The elements of s at the positions of I, in order.
Escolhe(s, I) == SelectSeq([k \in 1..Len(s) |-> <<k, s[k]>>], LAMBDA e : e[1] \in I)

\* The subsequences of s.
Subsequencias(s) ==
    {[k \in 1..Len(Escolhe(s, I)) |-> Escolhe(s, I)[k][2]] : I \in SUBSET (1..Len(s))}

\* The greatest length of a common subsequence of a and b.
MaiorComum(a, b) ==
    LET comuns == Subsequencias(a) \cap Subsequencias(b)
    IN  CHOOSE l \in 0..Len(a) :
            /\ \E x \in comuns : Len(x) = l
            /\ \A x \in comuns : Len(x) <= l

\* C21: the string mdc_sequencias returns is a subsequence of seq1 and of
\* seq2 whose length is dp[m][n], and dp[i][j] is the greatest length of a
\* common subsequence of the first i characters of seq1 and the first j of
\* seq2.
LcsEhMaiorSubsequenciaComum ==
    lpc = "return" =>
        /\ subsequencia \in Subsequencias(seq1)
        /\ subsequencia \in Subsequencias(seq2)
        /\ Len(subsequencia) = dp[<<Len(seq1), Len(seq2)>>]
        /\ \A i \in 0..Len(seq1), j \in 0..Len(seq2) :
            dp[<<i, j>>] = MaiorComum(SubSeq(seq1, 1, i), SubSeq(seq2, 1, j))

\* Reached: two strings with more than one longest common subsequence.
LcsEhMaiorSubsequenciaComumWitness ==
    /\ lpc = "return"
    /\ seq1 = <<"A", "G", "T">>
    /\ seq2 = <<"G", "A", "T">>
    /\ Len(subsequencia) = 2

(***************************************************************************)
(* validar_email, src/resolucao_problemas.py                               *)
(***************************************************************************)
\* A letter, a digit, the other characters of the pattern, a character of
\* the first class only, and the line feed.
AlfabetoM == {"a", "1", ".", "@", "_", "\n"}

Letras == {"a"}

Algarismos == {"1"}

\* line 40: the classes [a-zA-Z0-9._%+-], [a-zA-Z0-9.-] and [a-zA-Z].
ClasseUsuario == Letras \cup Algarismos \cup {".", "_", "%", "+", "-"}

ClasseDominio == Letras \cup Algarismos \cup {".", "-"}

ClasseExtensao == Letras

\* line 40: the positions where $ matches once s[1..f] is consumed: the end
\* of the string, and the position before a line feed that ends the string.
Cifrao(s) ==
    {Len(s)} \cup (IF Len(s) >= 1 /\ s[Len(s)] = "\n" THEN {Len(s) - 1} ELSE {})

\* s[de..ate] is not empty and all its characters are in the class.
Trecho(s, de, ate, classe) ==
    /\ de <= ate
    /\ \A k \in de..ate : s[k] \in classe

\* lines 40-41: re.match(padrao, email) finds a match: ^ is position 0, the
\* three repetitions take s[1..a-1], s[a+1..p-1] and s[p+1..f], f a position
\* where $ matches.
Casa(s) ==
    \E f \in Cifrao(s) : \E a \in 1..f : \E p \in a..f :
        /\ Trecho(s, 1, a - 1, ClasseUsuario)
        /\ s[a] = "@"
        /\ Trecho(s, a + 1, p - 1, ClasseDominio)
        /\ s[p] = "."
        /\ Trecho(s, p + 1, f, ClasseExtensao)
        /\ f - p >= 2

validar_email(s) == Casa(s)

EmailInit ==
    /\ email \in SeqAte(AlfabetoM, MaxEmail)
    /\ emailValido = None
    /\ mpc = "call"

\* A call validar_email(email).
EmailChamada ==
    /\ mpc = "call"
    /\ emailValido' = validar_email(email)
    /\ mpc' = "return"
    /\ UNCHANGED <<email, foraEmail>>

EmailNext == EmailChamada

\* validar_email is not running.
EmailOcioso ==
    /\ email = <<>>
    /\ emailValido = None
    /\ mpc = "ocioso"

\* The whole string is usuario @ dominio . extensao, the @ at position a and
\* the dot at position p.
FormaDeEmail(s) ==
    \E a, p \in 1..Len(s) :
        LET usuario == SubSeq(s, 1, a - 1)
            dominio == SubSeq(s, a + 1, p - 1)
            extensao == SubSeq(s, p + 1, Len(s))
        IN  /\ a < p
            /\ s = usuario \o <<"@">> \o dominio \o <<".">> \o extensao
            /\ Len(usuario) >= 1 /\ \A k \in 1..Len(usuario) : usuario[k] \in ClasseUsuario
            /\ Len(dominio) >= 1 /\ \A k \in 1..Len(dominio) : dominio[k] \in ClasseDominio
            /\ Len(extensao) >= 2 /\ \A k \in 1..Len(extensao) : extensao[k] \in ClasseExtensao

\* C22: validar_email(s) is true iff the whole string s, from its first to
\* its last character, is one or more characters of letters/digits/._%+-,
\* an @, one or more characters of letters/digits/.-, a dot and two or more
\* letters.
EmailSoAStringInteira ==
    mpc = "return" => (emailValido <=> FormaDeEmail(email))

(***************************************************************************)
(* validar_senha_forte, src/resolucao_problemas.py                         *)
(***************************************************************************)
\* An uppercase letter, a lowercase letter, a digit and a special character.
AlfabetoSenha == {"A", "a", "1", "!"}

\* line 66: the least length.
MinimoCaracteres == 8

\* lines 67, 70, 73, 76, 79: the reasons, without the mark and the accents.
FaltaTamanho == "Minimo 8 caracteres"

FaltaMaiuscula == "Falta letra maiuscula"

FaltaMinuscula == "Falta letra minuscula"

FaltaNumero == "Falta numero"

FaltaEspecial == "Falta caractere especial"

Especiais == {"!", "@", "#", "$", "%", "^", "&", "*", "(", ")", ",", ".", "?",
              "\"", ":", "{", "}", "|", "<", ">"}

\* re.search with a pattern of one class: some character is in the class.
search(Classe, s) == \E k \in 1..Len(s) : s[k] \in Classe

CurtaSeAteOMinimo(s) == Len(s) <= MinimoCaracteres

\* line 66: len(senha) < 8
Curta(s) == Len(s) < MinimoCaracteres

\* One if of lines 66-80: the reason is appended when the check is unmet.
Anexa(lista_problemas, naoAtende, razao) ==
    IF naoAtende THEN Append(lista_problemas, razao) ELSE lista_problemas

\* lines 64-80: problemas after the five ifs.
ProblemasDe(s) ==
    LET p1 == Anexa(<<>>, Curta(s), FaltaTamanho)
        p2 == Anexa(p1, ~search(Imagem(Maiusculas), s), FaltaMaiuscula)
        p3 == Anexa(p2, ~search(LetrasMinusculas, s), FaltaMinuscula)
        p4 == Anexa(p3, ~search(Digitos, s), FaltaNumero)
        p5 == Anexa(p4, ~search(Especiais, s), FaltaEspecial)
    IN  p5

SenhaInit ==
    /\ senha \in SeqAte(AlfabetoSenha, MaxSenha)
    /\ senhaValida = None
    /\ problemas = <<>>
    /\ spc = "call"

\* A call validar_senha_forte(senha); line 82 returns the tuple.
SenhaChamada ==
    /\ spc = "call"
    /\ problemas' = ProblemasDe(senha)
    /\ senhaValida' = (Len(problemas') = 0)
    /\ spc' = "return"
    /\ UNCHANGED <<senha, foraSenha>>

SenhaNext == SenhaChamada

\* validar_senha_forte is not running.
SenhaOcioso ==
    /\ senha = <<>>
    /\ senhaValida = None
    /\ problemas = <<>>
    /\ spc = "ocioso"

\* The five checks in their order, each with its reason.
Atende(s) ==
    <<[ok |-> Len(s) >= 8, razao |-> FaltaTamanho],
      [ok |-> \E k \in 1..Len(s) : s[k] = "A", razao |-> FaltaMaiuscula],
      [ok |-> \E k \in 1..Len(s) : s[k] = "a", razao |-> FaltaMinuscula],
      [ok |-> \E k \in 1..Len(s) : s[k] = "1", razao |-> FaltaNumero],
      [ok |-> \E k \in 1..Len(s) : s[k] = "!", razao |-> FaltaEspecial]>>

\* C23: validar_senha_forte(s) returns (valid, reasons): reasons holds one
\* reason for each unmet check and none for a met one, in the order length,
\* uppercase, lowercase, digit, special; valid is true iff reasons is empty.
SenhaRazoesDosNaoAtendidos ==
    spc = "return" =>
        LET c == Atende(senha) IN
        /\ \A k \in 1..5 : Ocorrencias(problemas, c[k].razao) = (IF c[k].ok THEN 0 ELSE 1)
        /\ \A i \in 1..Len(problemas) : \E k \in 1..5 : problemas[i] = c[k].razao
        /\ \A i, j \in 1..Len(problemas) : \A k, l \in 1..5 :
            (i < j /\ problemas[i] = c[k].razao /\ problemas[j] = c[l].razao) => k < l
        /\ senhaValida = (problemas = <<>>)

\* Reached: a password of eight characters that lacks only a digit, and so
\* gets one reason.
SenhaRazoesDosNaoAtendidosWitness ==
    /\ spc = "return"
    /\ senha = <<"A", "a", "!", "a", "a", "a", "a", "a">>
    /\ problemas = <<FaltaNumero>>
    /\ senhaValida = FALSE

(***************************************************************************)
(* Produto.reduzir_estoque and ServicoVendas.processar_pedido,             *)
(* src/codigo_limpo.py                                                     *)
(***************************************************************************)
Ids == {"PROD001", "PROD002"}

Objetos == 1..2

PodeVenderEstrito(produto, quantidade) == produto.quantidade_estoque > quantidade

\* line 77: self.quantidade_estoque >= quantidade
pode_vender(produto, quantidade) == produto.quantidade_estoque >= quantidade

\* lines 89-92: the objects after objs[o].reduzir_estoque(quantidade), and
\* the returned bool.
reduzir_estoque(objs, o, quantidade) ==
    IF pode_vender(objs[o], quantidade)
    THEN [objs |-> [objs EXCEPT ![o].quantidade_estoque = @ - quantidade], ret |-> TRUE]
    ELSE [objs |-> objs, ret |-> FALSE]

\* Pedido.esta_vazio: obter_numero_itens() == 0.
esta_vazio(its) == Len(its) = 0

\* GerenciadorEstoque.verificar_disponibilidade: False for an id that is
\* not in the dict, else pode_vender of the registered object.
verificar_disponibilidade(objs, reg, id_produto, quantidade) ==
    IF id_produto \notin DOMAIN reg THEN FALSE
    ELSE pode_vender(objs[reg[id_produto]], quantidade)

\* Pedido.obter_total: the sum of preco * quantidade over the items.
RECURSIVE obter_total(_, _)
obter_total(objs, its) ==
    IF its = <<>> THEN 0
    ELSE objs[Head(its).produto].preco * Head(its).quantidade + obter_total(objs, Tail(its))

RecusaSoNegativo(valor) == valor < 0

\* ProcessadorPagamento.processar_pagamento returns False: valor <= 0.
PagamentoRecusado(valor) == valor <= 0

\* lines 372-373: reduzir_estoque of each item's product, in order; the
\* returned bool is not looked at.
RECURSIVE ReduzirItens(_, _)
ReduzirItens(objs, its) ==
    IF its = <<>> THEN objs
    ELSE ReduzirItens(reduzir_estoque(objs, Head(its).produto, Head(its).quantidade).objs,
                      Tail(its))

\* lines 357-363: some item is not available.
AlgumIndisponivel(objs, reg, its) ==
    \E k \in 1..Len(its) :
        ~verificar_disponibilidade(objs, reg, objs[its[k].produto].id_produto,
                                   its[k].quantidade)

LojaInit ==
    /\ objetos \in [Objetos -> [id_produto : Ids, preco : 0..1,
                                quantidade_estoque : 0..MaxEstoque]]
    /\ objetos[1].id_produto = "PROD001"
    /\ objetos[2].preco = 1
    /\ produtos = <<>>
    /\ items = <<>>
    /\ status = "PENDENTE"
    /\ chamada = [op |-> "__init__"]
    /\ antes = [objetos |-> objetos, status |-> status]
    /\ retornoL = None

\* GerenciadorEstoque.adicionar_produto(produto)
LojaAdicionarProduto ==
    \E o \in Objetos :
        /\ produtos' = [i \in DOMAIN produtos \cup {objetos[o].id_produto} |->
                            IF i = objetos[o].id_produto THEN o ELSE produtos[i]]
        /\ chamada' = [op |-> "adicionar_produto"]
        /\ antes' = [objetos |-> objetos, status |-> status]
        /\ retornoL' = None
        /\ UNCHANGED <<objetos, items, status, foraLoja>>

\* Pedido.adicionar_item(ItemPedido(produto, quantidade))
LojaAdicionarItem ==
    \E o \in Objetos, q \in 0..MaxEstoque :
        /\ Len(items) < MaxItens
        /\ items' = Append(items, [produto |-> o, quantidade |-> q])
        /\ chamada' = [op |-> "adicionar_item"]
        /\ antes' = [objetos |-> objetos, status |-> status]
        /\ retornoL' = None
        /\ UNCHANGED <<objetos, produtos, status, foraLoja>>

\* ServicoVendas.processar_pedido(pedido, metodo_pagamento)
LojaProcessarPedido ==
    /\ chamada' = [op |-> "processar_pedido"]
    /\ antes' = [objetos |-> objetos, status |-> status]
    /\ IF \/ esta_vazio(items)
          \/ AlgumIndisponivel(objetos, produtos, items)
          \/ PagamentoRecusado(obter_total(objetos, items))
       THEN /\ retornoL' = FALSE
            /\ UNCHANGED <<objetos, status>>
       ELSE /\ objetos' = ReduzirItens(objetos, items)
            /\ status' = "PROCESSANDO"
            /\ retornoL' = TRUE
    /\ UNCHANGED <<produtos, items, foraLoja>>

LojaNext ==
    \/ LojaAdicionarProduto
    \/ LojaAdicionarItem
    \/ LojaProcessarPedido

\* No object of the module exists.
LojaOcioso ==
    /\ objetos = <<>>
    /\ produtos = <<>>
    /\ items = <<>>
    /\ status = None
    /\ chamada = [op |-> "ocioso"]
    /\ antes = None
    /\ retornoL = None

\* The quantity the order asks of object o, over all its items.
RECURSIVE TotalPedido(_, _)
TotalPedido(its, o) ==
    IF its = <<>> THEN 0
    ELSE (IF Head(its).produto = o THEN Head(its).quantidade ELSE 0)
         + TotalPedido(Tail(its), o)

\* C27: when processar_pedido returns True, the stock of every product in
\* the order is lower by the total quantity ordered of it, and no stock is
\* negative, also for orders with several items of the same product.
PedidoAceitoReduzOTotal ==
    (chamada.op = "processar_pedido" /\ retornoL = TRUE) =>
        /\ \A k \in 1..Len(items) :
            LET o == items[k].produto IN
            objetos[o].quantidade_estoque
                = antes.objetos[o].quantidade_estoque - TotalPedido(items, o)
        /\ \A o \in Objetos : objetos[o].quantidade_estoque >= 0

\* Item k of the order is of an unregistered product or of one whose
\* registered stock is below the quantity.
ItemSemEstoque(objs, k) ==
    LET id == objs[items[k].produto].id_produto IN
    \/ id \notin DOMAIN produtos
    \/ objs[produtos[id]].quantidade_estoque < items[k].quantidade

\* The order's total: every object's price times the quantity asked of it.
TotalAPagar(objs) ==
    objs[1].preco * TotalPedido(items, 1) + objs[2].preco * TotalPedido(items, 2)

\* C28: processar_pedido returns False for an empty order, an item whose
\* product is unregistered or lacks stock, or a total <= 0, and then no
\* stock and not the status has changed; the status becomes PROCESSANDO
\* only in a call that returns True.
PedidoRecusadoNadaMuda ==
    /\ chamada.op = "processar_pedido" =>
        /\ retornoL = FALSE <=>
            \/ items = <<>>
            \/ \E k \in 1..Len(items) : ItemSemEstoque(antes.objetos, k)
            \/ TotalAPagar(antes.objetos) <= 0
        /\ retornoL = FALSE => objetos = antes.objetos /\ status = antes.status
    /\ status # antes.status =>
        /\ chamada.op = "processar_pedido"
        /\ retornoL = TRUE
        /\ status = "PROCESSANDO"

\* Reached: an order of two available items that the payment rejects, its
\* total being 0.
PedidoRecusadoNadaMudaWitness ==
    /\ chamada.op = "processar_pedido"
    /\ retornoL = FALSE
    /\ Len(items) = 2
    /\ items[1].quantidade = 2
    /\ \A k \in 1..Len(items) : ~ItemSemEstoque(objetos, k)
    /\ status = "PENDENTE"

(***************************************************************************)
(* Sequences of Produto.reduzir_estoque calls, src/codigo_limpo.py         *)
(***************************************************************************)
EstoqueInit ==
    /\ estoqueObjs \in [Objetos -> [id_produto : {"PROD001"}, preco : {1},
                                    quantidade_estoque : -1..MaxEstoque]]
    /\ inicial = [o \in Objetos |-> estoqueObjs[o].quantidade_estoque]
    /\ chamadaE = [op |-> "__init__"]
    /\ antesE = estoqueObjs
    /\ retornoE = None
    /\ soNaoNegativas = TRUE

\* produto.reduzir_estoque(quantidade); a negative quantity raises the
\* stock, which is kept within MaxEstoque.
EstoqueReduzir ==
    \E o \in Objetos, q \in -1..MaxEstoque + 1 :
        LET r == reduzir_estoque(estoqueObjs, o, q) IN
        /\ estoqueObjs[o].quantidade_estoque - q <= MaxEstoque
        /\ estoqueObjs' = r.objs
        /\ retornoE' = r.ret
        /\ chamadaE' = [op |-> "reduzir_estoque", produto |-> o, quantidade |-> q]
        /\ antesE' = estoqueObjs
        /\ soNaoNegativas' = (soNaoNegativas /\ q >= 0)
        /\ UNCHANGED <<inicial, foraEstoque>>

EstoqueNext == EstoqueReduzir

\* No Produto exists.
EstoqueOcioso ==
    /\ estoqueObjs = <<>>
    /\ inicial = <<>>
    /\ chamadaE = [op |-> "ocioso"]
    /\ antesE = <<>>
    /\ retornoE = None
    /\ soNaoNegativas = TRUE

\* C24: reduzir_estoque(q) returns True and lowers quantidade_estoque by q
\* when quantidade_estoque >= q, else returns False and leaves it as it was;
\* so from non-negative stocks, after calls with non-negative quantities
\* only, no stock is negative.
ReduzEstoqueSoSeHa ==
    /\ chamadaE.op = "reduzir_estoque" =>
        LET o == chamadaE.produto
            q == chamadaE.quantidade
            a == antesE[o].quantidade_estoque
        IN  /\ a >= q => retornoE = TRUE /\ estoqueObjs[o].quantidade_estoque = a - q
            /\ a < q => retornoE = FALSE /\ estoqueObjs[o].quantidade_estoque = a
            /\ \A p \in Objetos \ {o} : estoqueObjs[p] = antesE[p]
    /\ (soNaoNegativas /\ \A o \in Objetos : inicial[o] >= 0) =>
        \A o \in DOMAIN estoqueObjs : estoqueObjs[o].quantidade_estoque >= 0

\* Reached: the whole stock taken in the second call of a sequence.
ReduzEstoqueSoSeHaWitness ==
    /\ chamadaE.op = "reduzir_estoque"
    /\ soNaoNegativas
    /\ inicial[chamadaE.produto] = 2
    /\ antesE[chamadaE.produto].quantidade_estoque = 1
    /\ chamadaE.quantidade = 1
    /\ retornoE = TRUE
    /\ estoqueObjs[chamadaE.produto].quantidade_estoque = 0

(***************************************************************************)
(* GerenciadorUsuarios.criar_usuario, src/trabalho_equipe.py               *)
(***************************************************************************)
IdsUsuario == {"U001", "U002"}

Nomes == {"Ana", "Bruno"}

Departamentos == {"Backend", "Frontend"}

NuncaExiste(reg, id_usuario) == FALSE

\* line 212: id_usuario in self._usuarios
JaExiste(reg, id_usuario) == id_usuario \in DOMAIN reg

\* lines 215-220: Usuario(id, nome, email, departamento), ativo defaulting to
\* True; email and data_criacao play no part and are left out.
NovoUsuario(id_usuario, nome, departamento) ==
    [id |-> id_usuario, nome |-> nome, departamento |-> departamento, ativo |-> TRUE]

\* line 222: self._usuarios[id_usuario] = usuario
Registra(reg, id_usuario, usuario) ==
    [i \in DOMAIN reg \cup {id_usuario} |-> IF i = id_usuario THEN usuario ELSE reg[i]]

UsuariosInit ==
    /\ usuarios = <<>>
    /\ chamadaU = [op |-> "__init__"]
    /\ antesU = <<>>
    /\ resultadoU = None
    /\ excecaoU = None

\* criar_usuario(id_usuario, nome, email, departamento)
UsuariosCriar ==
    \E id_usuario \in IdsUsuario, nome \in Nomes, departamento \in Departamentos :
        /\ chamadaU' = [op |-> "criar_usuario", id |-> id_usuario, nome |-> nome,
                        departamento |-> departamento]
        /\ antesU' = usuarios
        /\ IF JaExiste(usuarios, id_usuario)
           THEN /\ excecaoU' = "ValueError"
                /\ resultadoU' = None
                /\ UNCHANGED usuarios
           ELSE /\ usuarios' = Registra(usuarios, id_usuario,
                                        NovoUsuario(id_usuario, nome, departamento))
                /\ resultadoU' = usuarios'[id_usuario]
                /\ excecaoU' = None
        /\ UNCHANGED foraUsuarios

\* Usuario.desativar() and Usuario.ativar() on a registered user.
UsuariosAtivo ==
    \E id_usuario \in DOMAIN usuarios, ativo \in BOOLEAN :
        /\ chamadaU' = [op |-> IF ativo THEN "ativar" ELSE "desativar", id |-> id_usuario]
        /\ antesU' = usuarios
        /\ usuarios' = [usuarios EXCEPT ![id_usuario].ativo = ativo]
        /\ resultadoU' = None
        /\ excecaoU' = None
        /\ UNCHANGED foraUsuarios

UsuariosNext == UsuariosCriar \/ UsuariosAtivo

\* No GerenciadorUsuarios exists.
UsuariosOcioso ==
    /\ usuarios = <<>>
    /\ chamadaU = [op |-> "ocioso"]
    /\ antesU = <<>>
    /\ resultadoU = None
    /\ excecaoU = None

\* C25: criar_usuario with a registered id raises ValueError and leaves the
\* registry as it was; with a new id it registers one new active user under
\* that id and changes no other entry.
CriarUsuarioNaoSubstitui ==
    chamadaU.op = "criar_usuario" =>
        IF chamadaU.id \in DOMAIN antesU
        THEN /\ excecaoU = "ValueError"
             /\ usuarios = antesU
        ELSE /\ excecaoU = None
             /\ DOMAIN usuarios = DOMAIN antesU \cup {chamadaU.id}
             /\ usuarios[chamadaU.id].id = chamadaU.id
             /\ usuarios[chamadaU.id].nome = chamadaU.nome
             /\ usuarios[chamadaU.id].ativo = TRUE
             /\ resultadoU = usuarios[chamadaU.id]
             /\ \A i \in DOMAIN antesU : usuarios[i] = antesU[i]

\* Reached: the id of a deactivated user given again, with another name.
CriarUsuarioNaoSubstituiWitness ==
    /\ chamadaU.op = "criar_usuario"
    /\ chamadaU.id \in DOMAIN antesU
    /\ antesU[chamadaU.id].ativo = FALSE
    /\ antesU[chamadaU.id].nome # chamadaU.nome
    /\ excecaoU = "ValueError"
    /\ Cardinality(DOMAIN usuarios) = 2

(***************************************************************************)
(* ConfiguracaoAplicacao.__new__, src/facilidade_aprendizado.py            *)
(***************************************************************************)
\* line 33: None as the value of _instancia; the objects are numbered from 1.
Nenhuma == 0

SempreCria(inst) == TRUE

\* line 37: cls._instancia is None
SemInstancia(inst) == inst = Nenhuma

\* lines 42-46: the attributes _inicializar sets.
Inicializada == [versao |-> "1.0.0", ambiente |-> "desenvolvimento", debug |-> TRUE]

\* The values the attributes are given between constructions.
Atributos ==
    [versao : {"1.0.0", "2.0.0"}, ambiente : {"desenvolvimento", "producao"},
     debug : BOOLEAN]

ConfigInit ==
    /\ instancia = Nenhuma
    /\ configs = <<>>
    /\ construcoes = <<>>
    /\ inicializacoes = 0

\* A construction ConfiguracaoAplicacao(): lines 37-40.
ConfigNew ==
    /\ Len(construcoes) < MaxConstrucoes
    /\ IF SemInstancia(instancia)
       THEN /\ configs' = Append(configs, Inicializada)
            /\ instancia' = Len(configs) + 1
            /\ inicializacoes' = inicializacoes + 1
       ELSE UNCHANGED <<configs, instancia, inicializacoes>>
    /\ construcoes' = Append(construcoes,
           [objeto |-> instancia', antes |-> configs, depois |-> configs'])
    /\ UNCHANGED foraConfig

\* An attribute assignment on an object a construction returned.
ConfigAtribui ==
    \E k \in 1..Len(construcoes), a \in Atributos :
        /\ configs[construcoes[k].objeto] # a
        /\ configs' = [configs EXCEPT ![construcoes[k].objeto] = a]
        /\ UNCHANGED <<instancia, construcoes, inicializacoes, foraConfig>>

ConfigNext == ConfigNew \/ ConfigAtribui

\* The class is not used.
ConfigOcioso ==
    /\ instancia = Nenhuma
    /\ configs = <<>>
    /\ construcoes = <<>>
    /\ inicializacoes = 0

\* C26: every construction returned the same instance, _inicializar has
\* run once, on the first construction, and a later construction did not
\* reset the attribute values of the instance.
ConfigUmaSoInstancia ==
    Len(construcoes) >= 1 =>
        /\ \A k \in 1..Len(construcoes) : construcoes[k].objeto = construcoes[1].objeto
        /\ inicializacoes = 1
        /\ construcoes[1].antes = <<>> /\ construcoes[1].depois = <<Inicializada>>
        /\ \A k \in 2..Len(construcoes) : construcoes[k].depois = construcoes[k].antes
        /\ Len(configs) = 1

\* Reached: a second construction after debug and ambiente were changed.
ConfigUmaSoInstanciaWitness ==
    /\ Len(construcoes) = 2
    /\ construcoes[2].objeto = construcoes[1].objeto
    /\ construcoes[2].antes[1].debug = FALSE
    /\ construcoes[2].depois[1].ambiente = "producao"
    /\ configs[1].debug = FALSE

(***************************************************************************)
(* GerenciadorMensagens, src/trabalho_equipe.py                            *)
(***************************************************************************)
Conteudos == {"oi", "ok"}

\* The decimal digits of n, the most significant first.
RECURSIVE Decimal(_)
Decimal(n) == IF n < 10 THEN <<n>> ELSE Append(Decimal(n \div 10), n % 10)

\* The format 06d: zeros on the left up to six digits, no digit cut.
RECURSIVE ZerosAEsquerda(_, _)
ZerosAEsquerda(d, largura) ==
    IF Len(d) >= largura THEN d ELSE ZerosAEsquerda(<<0>> \o d, largura)

\* line 293: f"MSG{self._contador_id:06d}"
IdMensagem(contador) == <<"MSG">> \o ZerosAEsquerda(Decimal(contador), 6)

ContadorParado(contador) == contador

\* line 291: self._contador_id += 1
ProximoContador(contador) == contador + 1

\* lines 292-297: Mensagem(id, remetente, conteudo, tipo), lida defaulting to
\* False; remetente, tipo and timestamp play no part and are left out.
NovaMensagem(id, conteudo) == [id |-> id, conteudo |-> conteudo, lida |-> FALSE]

\* The ids given to marcar_lida: those of the messages that may be sent, and
\* one that no message gets.
IdsMensagem == {IdMensagem(n) : n \in 0..MaxMensagens}

MensagensInit ==
    /\ mensagens = <<>>
    /\ contador_id = 0
    /\ chamadaM = [op |-> "__init__"]
    /\ antesM = [mensagens |-> mensagens, contador_id |-> contador_id]
    /\ retornoM = None

\* enviar_mensagem(remetente, conteudo, tipo)
MensagensEnviar ==
    \E conteudo \in Conteudos :
        LET id == IdMensagem(ProximoContador(contador_id)) IN
        /\ contador_id < MaxMensagens
        /\ contador_id' = ProximoContador(contador_id)
        /\ mensagens' = [i \in DOMAIN mensagens \cup {id} |->
                            IF i = id THEN NovaMensagem(id, conteudo) ELSE mensagens[i]]
        /\ retornoM' = mensagens'[id]
        /\ chamadaM' = [op |-> "enviar_mensagem", conteudo |-> conteudo]
        /\ antesM' = [mensagens |-> mensagens, contador_id |-> contador_id]
        /\ UNCHANGED foraMensagens

\* marcar_lida(id_mensagem): lines 321-325.
MensagensMarcarLida ==
    \E id_mensagem \in IdsMensagem :
        /\ IF id_mensagem \in DOMAIN mensagens
           THEN /\ mensagens' = [mensagens EXCEPT ![id_mensagem].lida = TRUE]
                /\ retornoM' = TRUE
           ELSE /\ UNCHANGED mensagens
                /\ retornoM' = FALSE
        /\ chamadaM' = [op |-> "marcar_lida", id |-> id_mensagem]
        /\ antesM' = [mensagens |-> mensagens, contador_id |-> contador_id]
        /\ UNCHANGED <<contador_id, foraMensagens>>

MensagensNext == MensagensEnviar \/ MensagensMarcarLida

\* No GerenciadorMensagens exists.
MensagensOcioso ==
    /\ mensagens = <<>>
    /\ contador_id = 0
    /\ chamadaM = [op |-> "ocioso"]
    /\ antesM = <<>>
    /\ retornoM = None

\* C30: the stored messages have pairwise distinct ids, as many as
\* _contador_id; none is overwritten or removed and none goes from read to
\* unread; marcar_lida with an unknown id returns False and changes nothing.
MensagensNuncaSeSobrepoem ==
    chamadaM.op \in {"enviar_mensagem", "marcar_lida"} =>
        /\ \A i, j \in DOMAIN mensagens :
            mensagens[i].id = mensagens[j].id => i = j
        /\ \A i \in DOMAIN mensagens : mensagens[i].id = i
        /\ Cardinality(DOMAIN mensagens) = contador_id
        /\ \A i \in DOMAIN antesM.mensagens :
            /\ i \in DOMAIN mensagens
            /\ mensagens[i].id = antesM.mensagens[i].id
            /\ mensagens[i].conteudo = antesM.mensagens[i].conteudo
            /\ antesM.mensagens[i].lida => mensagens[i].lida
        /\ (chamadaM.op = "marcar_lida" /\ chamadaM.id \notin DOMAIN antesM.mensagens) =>
            /\ retornoM = FALSE
            /\ mensagens = antesM.mensagens
            /\ contador_id = antesM.contador_id

\* Reached: a message sent after an earlier one was read.
MensagensNuncaSeSobrepoemWitness ==
    /\ chamadaM.op = "enviar_mensagem"
    /\ contador_id = 2
    /\ DOMAIN mensagens = {IdMensagem(1), IdMensagem(2)}
    /\ mensagens[IdMensagem(1)].lida
    /\ ~mensagens[IdMensagem(2)].lida

(***************************************************************************)
(* The specifications: one function runs, the others are idle.             *)
(***************************************************************************)
InitBusca == BuscaInit /\ OrdenaOcioso /\ FibOcioso /\ TextoOcioso /\
    PalOcioso /\ ParOcioso /\ NumOcioso /\ UtilOcioso /\ ConjOcioso /\
    LcsOcioso /\ EmailOcioso /\ SenhaOcioso /\ LojaOcioso /\
    EstoqueOcioso /\ UsuariosOcioso /\ ConfigOcioso /\ MensagensOcioso

SpecBusca == InitBusca /\ [][BuscaNext]_vars

InitOrdena == OrdenaInit /\ BuscaOcioso /\ FibOcioso /\ TextoOcioso /\
    PalOcioso /\ ParOcioso /\ NumOcioso /\ UtilOcioso /\ ConjOcioso /\
    LcsOcioso /\ EmailOcioso /\ SenhaOcioso /\ LojaOcioso /\
    EstoqueOcioso /\ UsuariosOcioso /\ ConfigOcioso /\ MensagensOcioso

SpecOrdena == InitOrdena /\ [][OrdenaNext]_vars

InitFib == FibInit /\ BuscaOcioso /\ OrdenaOcioso /\ TextoOcioso /\
    PalOcioso /\ ParOcioso /\ NumOcioso /\ UtilOcioso /\ ConjOcioso /\
    LcsOcioso /\ EmailOcioso /\ SenhaOcioso /\ LojaOcioso /\
    EstoqueOcioso /\ UsuariosOcioso /\ ConfigOcioso /\ MensagensOcioso

SpecFib == InitFib /\ [][FibNext]_vars

InitTexto == TextoInit /\ BuscaOcioso /\ OrdenaOcioso /\ FibOcioso /\
    PalOcioso /\ ParOcioso /\ NumOcioso /\ UtilOcioso /\ ConjOcioso /\
    LcsOcioso /\ EmailOcioso /\ SenhaOcioso /\ LojaOcioso /\
    EstoqueOcioso /\ UsuariosOcioso /\ ConfigOcioso /\ MensagensOcioso

SpecTexto == InitTexto /\ [][TextoNext]_vars

InitPal == PalInit /\ BuscaOcioso /\ OrdenaOcioso /\ FibOcioso /\
    TextoOcioso /\ ParOcioso /\ NumOcioso /\ UtilOcioso /\ ConjOcioso /\
    LcsOcioso /\ EmailOcioso /\ SenhaOcioso /\ LojaOcioso /\
    EstoqueOcioso /\ UsuariosOcioso /\ ConfigOcioso /\ MensagensOcioso

SpecPal == InitPal /\ [][PalNext]_vars

InitPar == ParInit /\ BuscaOcioso /\ OrdenaOcioso /\ FibOcioso /\
    TextoOcioso /\ PalOcioso /\ NumOcioso /\ UtilOcioso /\ ConjOcioso /\
    LcsOcioso /\ EmailOcioso /\ SenhaOcioso /\ LojaOcioso /\
    EstoqueOcioso /\ UsuariosOcioso /\ ConfigOcioso /\ MensagensOcioso

SpecPar == InitPar /\ [][ParNext]_vars

InitNum == NumInit /\ BuscaOcioso /\ OrdenaOcioso /\ FibOcioso /\
    TextoOcioso /\ PalOcioso /\ ParOcioso /\ UtilOcioso /\ ConjOcioso /\
    LcsOcioso /\ EmailOcioso /\ SenhaOcioso /\ LojaOcioso /\
    EstoqueOcioso /\ UsuariosOcioso /\ ConfigOcioso /\ MensagensOcioso

SpecNum == InitNum /\ [][NumNext]_vars

InitUtil == UtilInit /\ BuscaOcioso /\ OrdenaOcioso /\ FibOcioso /\
    TextoOcioso /\ PalOcioso /\ ParOcioso /\ NumOcioso /\ ConjOcioso /\
    LcsOcioso /\ EmailOcioso /\ SenhaOcioso /\ LojaOcioso /\
    EstoqueOcioso /\ UsuariosOcioso /\ ConfigOcioso /\ MensagensOcioso

SpecUtil == InitUtil /\ [][UtilNext]_vars

InitConj == ConjInit /\ BuscaOcioso /\ OrdenaOcioso /\ FibOcioso /\
    TextoOcioso /\ PalOcioso /\ ParOcioso /\ NumOcioso /\ UtilOcioso /\
    LcsOcioso /\ EmailOcioso /\ SenhaOcioso /\ LojaOcioso /\
    EstoqueOcioso /\ UsuariosOcioso /\ ConfigOcioso /\ MensagensOcioso

SpecConj == InitConj /\ [][ConjNext]_vars

InitLcs == LcsInit /\ BuscaOcioso /\ OrdenaOcioso /\ FibOcioso /\
    TextoOcioso /\ PalOcioso /\ ParOcioso /\ NumOcioso /\ UtilOcioso /\
    ConjOcioso /\ EmailOcioso /\ SenhaOcioso /\ LojaOcioso /\
    EstoqueOcioso /\ UsuariosOcioso /\ ConfigOcioso /\ MensagensOcioso

SpecLcs == InitLcs /\ [][LcsNext]_vars

InitEmail == EmailInit /\ BuscaOcioso /\ OrdenaOcioso /\ FibOcioso /\
    TextoOcioso /\ PalOcioso /\ ParOcioso /\ NumOcioso /\ UtilOcioso /\
    ConjOcioso /\ LcsOcioso /\ SenhaOcioso /\ LojaOcioso /\
    EstoqueOcioso /\ UsuariosOcioso /\ ConfigOcioso /\ MensagensOcioso

SpecEmail == InitEmail /\ [][EmailNext]_vars

InitSenha == SenhaInit /\ BuscaOcioso /\ OrdenaOcioso /\ FibOcioso /\
    TextoOcioso /\ PalOcioso /\ ParOcioso /\ NumOcioso /\ UtilOcioso /\
    ConjOcioso /\ LcsOcioso /\ EmailOcioso /\ LojaOcioso /\
    EstoqueOcioso /\ UsuariosOcioso /\ ConfigOcioso /\ MensagensOcioso

SpecSenha == InitSenha /\ [][SenhaNext]_vars

InitLoja == LojaInit /\ BuscaOcioso /\ OrdenaOcioso /\ FibOcioso /\
    TextoOcioso /\ PalOcioso /\ ParOcioso /\ NumOcioso /\ UtilOcioso /\
    ConjOcioso /\ LcsOcioso /\ EmailOcioso /\ SenhaOcioso /\
    EstoqueOcioso /\ UsuariosOcioso /\ ConfigOcioso /\ MensagensOcioso

SpecLoja == InitLoja /\ [][LojaNext]_vars

InitEstoque == EstoqueInit /\ BuscaOcioso /\ OrdenaOcioso /\ FibOcioso /\
    TextoOcioso /\ PalOcioso /\ ParOcioso /\ NumOcioso /\ UtilOcioso /\
    ConjOcioso /\ LcsOcioso /\ EmailOcioso /\ SenhaOcioso /\ LojaOcioso /\
    UsuariosOcioso /\ ConfigOcioso /\ MensagensOcioso

SpecEstoque == InitEstoque /\ [][EstoqueNext]_vars

InitUsuarios == UsuariosInit /\ BuscaOcioso /\ OrdenaOcioso /\ FibOcioso /\
    TextoOcioso /\ PalOcioso /\ ParOcioso /\ NumOcioso /\ UtilOcioso /\
    ConjOcioso /\ LcsOcioso /\ EmailOcioso /\ SenhaOcioso /\ LojaOcioso /\
    EstoqueOcioso /\ ConfigOcioso /\ MensagensOcioso

SpecUsuarios == InitUsuarios /\ [][UsuariosNext]_vars

InitConfig == ConfigInit /\ BuscaOcioso /\ OrdenaOcioso /\ FibOcioso /\
    TextoOcioso /\ PalOcioso /\ ParOcioso /\ NumOcioso /\ UtilOcioso /\
    ConjOcioso /\ LcsOcioso /\ EmailOcioso /\ SenhaOcioso /\ LojaOcioso /\
    EstoqueOcioso /\ UsuariosOcioso /\ MensagensOcioso

SpecConfig == InitConfig /\ [][ConfigNext]_vars

InitMensagens == MensagensInit /\ BuscaOcioso /\ OrdenaOcioso /\
    FibOcioso /\ TextoOcioso /\ PalOcioso /\ ParOcioso /\ NumOcioso /\
    UtilOcioso /\ ConjOcioso /\ LcsOcioso /\ EmailOcioso /\ SenhaOcioso /\
    LojaOcioso /\ EstoqueOcioso /\ UsuariosOcioso /\ ConfigOcioso

SpecMensagens == InitMensagens /\ [][MensagensNext]_vars

Init ==
    \/ InitBusca
    \/ InitOrdena
    \/ InitFib
    \/ InitTexto
    \/ InitPal
    \/ InitPar
    \/ InitNum
    \/ InitUtil
    \/ InitConj
    \/ InitLcs
    \/ InitEmail
    \/ InitSenha
    \/ InitLoja
    \/ InitEstoque
    \/ InitUsuarios
    \/ InitConfig
    \/ InitMensagens

Next ==
    \/ BuscaNext
    \/ OrdenaNext
    \/ FibNext
    \/ TextoNext
    \/ PalNext
    \/ ParNext
    \/ NumNext
    \/ UtilNext
    \/ ConjNext
    \/ LcsNext
    \/ EmailNext
    \/ SenhaNext
    \/ LojaNext
    \/ EstoqueNext
    \/ UsuariosNext
    \/ ConfigNext
    \/ MensagensNext

Spec == Init /\ [][Next]_vars

(***************************************************************************)
(* busca_binaria runs to its end: a call that can take a step takes it.    *)
(***************************************************************************)
SpecBuscaJusta == InitBusca /\ [][BuscaNext]_vars /\ WF_vars(BuscaNext)

\* An iteration returns or leaves a strictly smaller interval inside the
\* old one.
IteracaoEncolhe ==
    BuscaIteracao =>
        \/ bpc' = "return"
        \/ /\ esquerda <= esquerda'
           /\ direita' <= direita
           /\ direita' - esquerda' < direita - esquerda

\* C29: busca_binaria terminates on every list, sorted or not, and every
\* target: each iteration returns or strictly shrinks [esquerda, direita],
\* and the loop runs at most len(lista) iterations.
BuscaTermina ==
    /\ <>(bpc = "return")
    /\ [][IteracaoEncolhe]_vars
    /\ [](iteracoes <= Len(lista))

\* Reached: an unsorted list searched to the end, with as many iterations
\* as a list of its length allows.
BuscaTerminaWitness ==
    /\ bpc = "return"
    /\ ~Ordenada(lista)
    /\ Len(lista) = MaxLista
    /\ indice = -1
    /\ iteracoes = 3

=============================================================================
